---- MODULE Spec2Model ----
(***************************************************************************)
(* Model of socket_threads.py: three single-peer TCP endpoint servers      *)
(* (NodeUpdateThread, CommandHandlerThread, RealTimeDataThread), their     *)
(* stores and the SocketManager.                                           *)
(*                                                                         *)
(* A Python str is a sequence of one-character strings.  A dict is a       *)
(* function whose domain is its key set.  A payload handed to a handler is *)
(* a record: kind "json" carries the value json.loads returns for it       *)
(* (doc), kind "text" carries the characters (text) of a body json.loads   *)
(* rejects; src records what a text body was rendered from and is never    *)
(* read by a handler.                                                      *)
(***************************************************************************)
EXTENDS Integers, Sequences, FiniteSets, TLC

VARIABLES
    \* NodeUpdateThread store and _process_node_update position
    connected_devices, broadcast_node_list,
    nu_pc, nu_data, nu_prior, nu_arg,
    \* the result of a get_node_info() that ran during the update in progress
    ni_result, ni_during,
    \* RealTimeDataThread store: the deque, the calls of _process_sensor_data
    \* so far (each reads datetime.now() once), and every sample appended
    \* since the deque was last empty by clear
    sensor_data_list, rt_clock, rt_appended,
    \* the argument of the last _process_sensor_data call, what time.time()
    \* returns, and last_display_time
    rt_data, rt_now, last_display_time,
    \* NodeUpdateThread.run reading from its peer: position, connected flag,
    \* client socket, and the locals data_length and data_parts
    f_pc, f_connected, f_client_sock, f_data_length, f_data_parts,
    \* the connection: the peer's side, bytes in flight, bytes received and
    \* not yet read, how the peer ended it
    f_peer, f_wire, f_rbuf, f_end,
    \* the messages the peer sent on this connection and the strings handed
    \* to _process_node_update from it
    f_sent, f_handled,
    \* how many connections peers have made to the endpoint
    f_conns,
    \* CommandHandlerThread: position of run, connected flag, client socket,
    \* the command being sent, where _send_raw_command returns to, and the
    \* local response_length
    c_pc, c_connected, c_client_sock, c_command, c_ret, c_response_length,
    \* command_queue, the holder of command_lock, and the thread calling
    \* send_command
    command_queue, command_lock, sc_pc, sc_command, sc_calls,
    \* the commands in the order they were appended to command_queue, and in
    \* the order the worker took them off
    enqueued, dequeued,
    \* the queued commands that were appended while no open peer connection
    \* was held and for which no accept has happened since
    held,
    \* the dequeued commands whose sendall raised, and how many entries the worker
    \* took off the queue in the loop iteration it is in
    c_failed, c_taken,
    \* the Command connection: the peer's side, bytes in flight, bytes
    \* received and not yet read, how the peer ended it, what the peer sent
    \* and what reached it
    c_peer, c_wire, c_rbuf, c_end, c_sent, c_out,
    \* the NodeUpdateThread as a thread: position of run, the flags running
    \* and connected, the listener socket, the client socket, a peer's
    \* connection, and the position of a stop() call on it
    t_pc, t_running, t_sock, t_connected, t_client_sock, t_peer, st_pc,
    \* the connection of a second peer that connects while the first is held
    t_second,
    \* the main thread (main, start_all, stop_all), the manager's running flag,
    \* who called stop_all, the CommandInputThread, and the other two endpoint
    \* threads
    m_pc, m_running, m_caller, in_pc, in_running, others,
    \* the Command and Telemetry endpoint objects as stop_all finds them: per
    \* thread the position of run and the fields running, sock, connected and
    \* client_sock
    ep,
    \* a caller of get_sensor_data: the list it was handed, as the references
    \* it holds (a sample object is known by the clock reading of its append)
    gs_result

topoVars == <<connected_devices, broadcast_node_list, nu_pc, nu_data,
              nu_prior, nu_arg, ni_result, ni_during>>

telemVars == <<sensor_data_list, rt_clock, rt_appended,
               rt_data, rt_now, last_display_time>>

frameVars == <<f_pc, f_connected, f_client_sock, f_data_length, f_data_parts,
               f_peer, f_wire, f_rbuf, f_end, f_sent, f_handled, f_conns>>

cmdVars == <<c_pc, c_connected, c_client_sock, c_command, c_ret, c_response_length,
             command_queue, command_lock, sc_pc, sc_command, sc_calls,
             enqueued, dequeued, held, c_failed, c_taken,
             c_peer, c_wire, c_rbuf, c_end, c_sent, c_out>>

endpointVars == <<t_pc, t_running, t_sock, t_connected, t_client_sock, t_peer,
                  t_second>>
mgrVars == <<m_pc, m_running, m_caller, in_pc, in_running, others, ep>>
lifeVars == <<endpointVars, st_pc, mgrVars>>

readerVars == <<gs_result>>

vars == <<topoVars, telemVars, frameVars, cmdVars, lifeVars, readerVars>>

nonTopo == <<telemVars, frameVars, cmdVars, lifeVars, readerVars>>
nonTelem == <<topoVars, frameVars, cmdVars, lifeVars, readerVars>>
nonCmd == <<topoVars, telemVars, frameVars, lifeVars, readerVars>>
nonLife == <<topoVars, telemVars, frameVars, cmdVars, readerVars>>
\* what the reading loop leaves alone: the handler position, get_node_info, telemetry
nonFrame == <<nu_pc, nu_data, nu_prior, nu_arg, ni_result, ni_during, telemVars,
              cmdVars, lifeVars, readerVars>>
\* the same for the Telemetry endpoint's loop, whose handler writes telemVars
nonRtFrame == <<nu_pc, nu_data, nu_prior, nu_arg, ni_result, ni_during,
                cmdVars, lifeVars, readerVars>>

----------------------------------------------------------------------------
(* Bounds of the model *)

\* entries and node names of a text body sent to the running Topology endpoint
MaxEntries == 1
MaxNodes == 1
\* entries and node names of a text body given to _process_node_update alone
MaxTextEntries == 2
MaxTextNodes == 2
\* capacity of the sensor history (max_data_points; the program's default is 1000)
max_data_points == 3
\* calls of _process_sensor_data, each with its own clock reading
MaxReadings == 4
\* seconds that pass while the Telemetry endpoint runs
MaxTime == 2
\* messages a peer sends on one connection
MaxSends == 1
\* connections made to the Topology endpoint, one after the other
MaxConns == 2
\* calls of send_command
MaxCommands == 2

----------------------------------------------------------------------------
(* Python str and dict operations *)

IsSpace(ch) == ch \in {" ", "\t", "\n", "\r"}

LStrip(s) ==
    IF \A i \in 1..Len(s) : IsSpace(s[i]) THEN <<>>
    ELSE LET i == CHOOSE i \in 1..Len(s) :
                     /\ ~IsSpace(s[i])
                     /\ \A j \in 1..(i - 1) : IsSpace(s[j])
         IN  SubSeq(s, i, Len(s))

RStrip(s) ==
    IF \A i \in 1..Len(s) : IsSpace(s[i]) THEN <<>>
    ELSE LET i == CHOOSE i \in 1..Len(s) :
                     /\ ~IsSpace(s[i])
                     /\ \A j \in (i + 1)..Len(s) : IsSpace(s[j])
         IN  SubSeq(s, 1, i)

\* a strip that forgets the right-hand side
StripLeftOnly(s) == LStrip(s)

\* str.strip()
Strip(s) == RStrip(LStrip(s))

\* c in s
Contains(s, c) == \E i \in 1..Len(s) : s[i] = c

FirstIndex(s, c) ==
    CHOOSE i \in 1..Len(s) : s[i] = c /\ \A j \in 1..(i - 1) : s[j] # c

RECURSIVE Split(_, _)
\* s.split(c): always at least one part
Split(s, c) ==
    IF ~Contains(s, c) THEN <<s>>
    ELSE LET i == FirstIndex(s, c)
         IN  <<SubSeq(s, 1, i - 1)>> \o Split(SubSeq(s, i + 1, Len(s)), c)

\* s.split(c, 1) for an s that contains c
Split1(s, c) ==
    LET i == FirstIndex(s, c)
    IN  <<SubSeq(s, 1, i - 1), SubSeq(s, i + 1, Len(s))>>

EmptyDict == [k \in {} |-> <<>>]

\* d[k] = v
DictSet(d, k, v) == [x \in (DOMAIN d) \cup {k} |-> IF x = k THEN v ELSE d[x]]

Digit(d) ==
    CASE d = 0 -> "0" [] d = 1 -> "1" [] d = 2 -> "2" [] d = 3 -> "3"
      [] d = 4 -> "4" [] d = 5 -> "5" [] d = 6 -> "6" [] d = 7 -> "7"
      [] d = 8 -> "8" [] d = 9 -> "9"

RECURSIVE DecStr(_)
\* str(n) for an int n >= 0
DecStr(n) == IF n < 10 THEN <<Digit(n)>> ELSE DecStr(n \div 10) \o <<Digit(n % 10)>>

\* str(x) for a JSON array element: a str is itself, an int its decimal
\* digits, null is None
Str(x) ==
    CASE x.t = "str" -> x.s
      [] x.t = "int" -> DecStr(x.n)
      [] OTHER -> <<"N", "o", "n", "e">>

----------------------------------------------------------------------------
(* JSON values as json.loads returns them *)

JStr(s) == [t |-> "str", s |-> s, n |-> 0]
JInt(n) == [t |-> "int", s |-> <<>>, n |-> n]
JNull == [t |-> "null", s |-> <<>>, n |-> 0]

\* a field value: a dict (keys in document order, d its mapping), a list of
\* elements, or any other shape
JDict(keys, d) == [t |-> "dict", keys |-> keys, d |-> d, l |-> <<>>]
JList(l) == [t |-> "list", keys |-> <<>>, d |-> EmptyDict, l |-> l]
JOther == [t |-> "other", keys |-> <<>>, d |-> EmptyDict, l |-> <<>>]

\* the root value: isdict is isinstance(update_data, dict)
JDoc(isdict, hd, dv, hn, nv) ==
    [isdict |-> isdict, has_devices |-> hd, devices |-> dv,
     has_nodes |-> hn, nodes |-> nv]

NoDoc == JDoc(FALSE, FALSE, JOther, FALSE, JOther)

NoSrc == [es |-> <<>>, ns |-> <<>>, pipe |-> FALSE]

JsonPayload(doc) == [kind |-> "json", doc |-> doc, text |-> <<>>, src |-> NoSrc]
TextPayload(text, src) == [kind |-> "text", doc |-> NoDoc, text |-> text, src |-> src]
NoPayload == [kind |-> "none", doc |-> NoDoc, text |-> <<>>, src |-> NoSrc]

----------------------------------------------------------------------------
(* Inputs of the Topology endpoint *)

A == <<"a">>
B == <<"b">>
X == <<"x">>
Y == <<"y">>
ON == <<"o", "n">>
OFF == <<"o", "f", "f">>

SeqsUpTo(S, n) == UNION {[1..k -> S] : k \in 0..n}

\* JSON bodies: both fields well-formed; an empty node array; a non-object
\* 'devices' with an object 'broadcast_nodes'; 'broadcast_nodes' of another
\* shape without 'devices'; 'devices' alone; a root that is not an object
JsonDocs ==
    { JDoc(TRUE, TRUE, JDict(<<A>>, DictSet(EmptyDict, A, ON)),
           TRUE, JList(<<JStr(X), JInt(7)>>)),
      JDoc(TRUE, TRUE, JDict(<<B>>, DictSet(EmptyDict, B, OFF)),
           TRUE, JList(<<JNull>>)),
      JDoc(TRUE, TRUE, JOther,
           TRUE, JDict(<<Y, X>>, DictSet(DictSet(EmptyDict, Y, ON), X, ON))),
      JDoc(TRUE, FALSE, JOther, TRUE, JOther),
      JDoc(TRUE, TRUE, JDict(<<>>, EmptyDict), FALSE, JOther),
      JDoc(FALSE, FALSE, JOther, FALSE, JOther) }

\* the entries a text body is rendered from: 'a:on', ' a : off ', 'b:off'
\* and 'ab' (no colon)
EntryTokens ==
    { [colon |-> TRUE, id |-> A, st |-> ON, pad |-> FALSE],
      [colon |-> TRUE, id |-> A, st |-> OFF, pad |-> TRUE],
      [colon |-> TRUE, id |-> B, st |-> OFF, pad |-> FALSE],
      [colon |-> FALSE, id |-> <<"a", "b">>, st |-> <<>>, pad |-> FALSE] }

\* the node names: 'x', ' y ' and a blank one
NodeTokens ==
    { [name |-> X, pad |-> FALSE],
      [name |-> Y, pad |-> TRUE],
      [name |-> <<>>, pad |-> TRUE] }

Pad(s, pad) == IF pad THEN <<" ">> \o s \o <<" ">> ELSE s

RenderEntry(e) ==
    IF e.colon THEN Pad(e.id, e.pad) \o <<":">> \o Pad(e.st, e.pad)
    ELSE Pad(e.id, e.pad)

RenderNode(n) == Pad(n.name, n.pad)

RECURSIVE Join(_, _)
\* sep.join(parts)
Join(parts, sep) ==
    IF Len(parts) = 0 THEN <<>>
    ELSE IF Len(parts) = 1 THEN parts[1]
    ELSE parts[1] \o <<sep>> \o Join(Tail(parts), sep)

BuildText(src) ==
    Join([i \in 1..Len(src.es) |-> RenderEntry(src.es[i])], ",")
    \o (IF src.pipe
        THEN <<"|">> \o Join([i \in 1..Len(src.ns) |-> RenderNode(src.ns[i])], ",")
        ELSE <<>>)

\* bodies 'e1,e2|n1,n2' and bodies 'e1,e2' without a node part
TextSrcs(maxEntries, maxNodes) ==
    { [es |-> es, ns |-> ns, pipe |-> TRUE] :
        es \in SeqsUpTo(EntryTokens, maxEntries),
        ns \in SeqsUpTo(NodeTokens, maxNodes) \ {<<>>} }
    \cup { [es |-> es, ns |-> <<>>, pipe |-> FALSE] :
             es \in SeqsUpTo(EntryTokens, maxEntries) }

TextPayloads(maxEntries, maxNodes) ==
    { TextPayload(BuildText(s), s) : s \in TextSrcs(maxEntries, maxNodes) }

TopoPayloads ==
    { JsonPayload(d) : d \in JsonDocs } \cup TextPayloads(MaxEntries, MaxNodes)

\* the body 'a:on|x,y|z', with more than one '|'
TwoPipeText == <<"a", ":", "o", "n", "|", "x", ",", "y", "|", "z">>
TwoPipePayloads == { TextPayload(TwoPipeText, NoSrc) }

\* stores a text body may find: the constructed one and one left by ' a : off | y '
TextPriors ==
    { <<EmptyDict, <<>>>>, <<DictSet(EmptyDict, A, OFF), <<Y>>>> }

----------------------------------------------------------------------------
(* NodeUpdateThread._process_node_update and get_node_info *)

\* 'devices' of a JSON object: replaces the registry when it is an object
JsonDevicesMerge(old, doc) ==
    IF doc.has_devices /\ doc.devices.t = "dict"
    THEN [k \in (DOMAIN old) \cup (DOMAIN doc.devices.d) |->
            IF k \in DOMAIN doc.devices.d THEN doc.devices.d[k] ELSE old[k]]
    ELSE old

JsonDevices(old, doc) ==
    IF doc.has_devices /\ doc.devices.t = "dict" THEN doc.devices.d ELSE old

\* a 'broadcast_nodes' of which only a list is taken
JsonNodesListOnly(old, doc) ==
    IF doc.has_nodes /\ doc.nodes.t = "list"
    THEN [i \in 1..Len(doc.nodes.l) |-> Str(doc.nodes.l[i])]
    ELSE old

\* 'broadcast_nodes' of a JSON object: a list is stringified, a dict gives
\* its keys, any other shape is ignored
JsonNodes(old, doc) ==
    IF ~doc.has_nodes THEN old
    ELSE IF doc.nodes.t = "list"
         THEN [i \in 1..Len(doc.nodes.l) |-> Str(doc.nodes.l[i])]
    ELSE IF doc.nodes.t = "dict" THEN doc.nodes.keys
    ELSE old

RECURSIVE DevicesFrom(_, _)
\* the loop over devices_str.split(',')
DevicesFrom(entries, devices) ==
    IF Len(entries) = 0 THEN devices
    ELSE LET device_entry == Head(entries)
         IN  IF Contains(device_entry, ":")
             THEN LET kv == Split1(device_entry, ":")
                  IN  DevicesFrom(Tail(entries),
                                  DictSet(devices, Strip(kv[1]), Strip(kv[2])))
             ELSE DevicesFrom(Tail(entries), devices)

ParseDevices(devices_str) == DevicesFrom(Split(devices_str, ","), EmptyDict)

\* [n.strip() for n in parts[1].split(',') if n.strip()]
ParseNodes(nodes_str) ==
    LET raw == Split(nodes_str, ",")
        stripped == [i \in 1..Len(raw) |-> Strip(raw[i])]
    IN  SelectSeq(stripped, LAMBDA n : n # <<>>)

Store == <<connected_devices, broadcast_node_list>>

TopoInit ==
    /\ connected_devices = EmptyDict
    /\ broadcast_node_list = <<>>
    /\ nu_pc = "idle"
    /\ nu_data = NoPayload
    /\ nu_prior = <<EmptyDict, <<>>>>
    /\ nu_arg = NoPayload
    /\ ni_result = <<EmptyDict, <<>>>>
    /\ ni_during = FALSE

\* entry of _process_node_update(data): json.loads and the isinstance check
ProcessNodeUpdate(data) ==
    /\ nu_pc = "idle"
    /\ nu_data' = data
    /\ nu_prior' = Store
    /\ nu_pc' = IF data.kind = "json"
              THEN IF data.doc.isdict THEN "json_update" ELSE "return"
              ELSE "text_devices"
    /\ UNCHANGED <<connected_devices, broadcast_node_list, ni_result, ni_during>>

\* a message of the peer reaches the handler
ReceiveNodeUpdate ==
    \E data \in TopoPayloads : ProcessNodeUpdate(data) /\ UNCHANGED nu_arg

\* with self.lock: both fields of a JSON object
JsonUpdate ==
    /\ nu_pc = "json_update"
    /\ connected_devices' = JsonDevices(connected_devices, nu_data.doc)
    /\ broadcast_node_list' = JsonNodes(broadcast_node_list, nu_data.doc)
    /\ nu_pc' = "display"
    /\ UNCHANGED <<nu_data, nu_prior, nu_arg, ni_result, ni_during>>

\* the text fallback, part 0: with self.lock: self.connected_devices = devices
TextDevices ==
    /\ nu_pc = "text_devices"
    /\ LET parts == Split(nu_data.text, "|")
       IN  /\ connected_devices' = ParseDevices(parts[1])
           /\ nu_pc' = IF Len(parts) >= 2 THEN "text_nodes" ELSE "display"
    /\ UNCHANGED <<broadcast_node_list, nu_data, nu_prior, nu_arg,
                   ni_result, ni_during>>

\* the text fallback, part 1: with self.lock: self.broadcast_node_list = nodes
TextNodes ==
    /\ nu_pc = "text_nodes"
    /\ LET parts == Split(nu_data.text, "|")
       IN  broadcast_node_list' = ParseNodes(parts[2])
    /\ nu_pc' = "display"
    /\ UNCHANGED <<connected_devices, nu_data, nu_prior, nu_arg,
                   ni_result, ni_during>>

\* _display_node_update: prints both fields under the lock
DisplayNodeUpdate ==
    /\ nu_pc = "display"
    /\ nu_pc' = "return"
    /\ UNCHANGED <<connected_devices, broadcast_node_list, nu_data, nu_prior,
                   nu_arg, ni_result, ni_during>>

\* _process_node_update returns to run(): its locals are gone
NodeUpdateReturn ==
    /\ nu_pc = "return"
    /\ nu_pc' = "idle"
    /\ nu_data' = NoPayload
    /\ nu_prior' = <<EmptyDict, <<>>>>
    /\ ni_result' = <<EmptyDict, <<>>>>
    /\ ni_during' = FALSE
    /\ UNCHANGED <<connected_devices, broadcast_node_list, nu_arg>>

\* get_node_info on another thread: copies of both fields under the lock
GetNodeInfo ==
    /\ IF nu_pc \in {"idle", "return"}
       THEN UNCHANGED <<ni_result, ni_during>>
       ELSE /\ ni_result' = <<connected_devices, broadcast_node_list>>
            /\ ni_during' = TRUE
    /\ UNCHANGED <<connected_devices, broadcast_node_list, nu_pc, nu_data,
                   nu_prior, nu_arg>>

----------------------------------------------------------------------------
(* RealTimeDataThread._process_sensor_data and the sensor history *)

S1 == <<"s", "1">>
S2 == <<"s", "2">>
TIMESTAMP == <<"t", "i", "m", "e", "s", "t", "a", "m", "p">>

\* values of a sample: a str, an int, a float m * 10^-e (e minimal), and the
\* ISO timestamp of clock reading m
VStr(s) == [t |-> "str", s |-> s, m |-> 0, e |-> 0]
VInt(n) == [t |-> "int", s |-> <<>>, m |-> n, e |-> 0]
VFloat(m, e) == [t |-> "float", s |-> <<>>, m |-> m, e |-> e]
VTime(k) == [t |-> "time", s |-> <<>>, m |-> k, e |-> 0]

IsDigit(ch) == ch \in {"0", "1", "2", "3", "4", "5", "6", "7", "8", "9"}

DigitVal(ch) ==
    CASE ch = "0" -> 0 [] ch = "1" -> 1 [] ch = "2" -> 2 [] ch = "3" -> 3
      [] ch = "4" -> 4 [] ch = "5" -> 5 [] ch = "6" -> 6 [] ch = "7" -> 7
      [] ch = "8" -> 8 [] ch = "9" -> 9

RECURSIVE DigitsVal(_)
DigitsVal(ds) ==
    IF Len(ds) = 0 THEN 0
    ELSE 10 * DigitsVal(SubSeq(ds, 1, Len(ds) - 1)) + DigitVal(ds[Len(ds)])

RECURSIVE Normalize(_, _)
\* the same number with no trailing zero decimals
Normalize(m, e) ==
    IF e > 0 /\ m % 10 = 0 THEN Normalize(m \div 10, e - 1) ELSE VFloat(m, e)

\* float(s) for s made of whitespace, a sign, digits and '.': the value, or
\* ok = FALSE where float raises ValueError
ParseFloat(str) ==
    LET s == Strip(str)
        signed == Len(s) > 0 /\ s[1] \in {"+", "-"}
        body == IF signed THEN Tail(s) ELSE s
        dots == {i \in 1..Len(body) : body[i] = "."}
        digits == SelectSeq(body, IsDigit)
        wellFormed == /\ Len(digits) > 0
                      /\ Cardinality(dots) <= 1
                      /\ \A i \in 1..Len(body) : IsDigit(body[i]) \/ body[i] = "."
        e == IF dots = {} THEN 0 ELSE Len(body) - (CHOOSE i \in dots : TRUE)
        m == DigitsVal(digits)
    IN  IF ~wellFormed THEN [ok |-> FALSE, v |-> VFloat(0, 0)]
        ELSE [ok |-> TRUE,
              v |-> Normalize(IF signed /\ s[1] = "-" THEN 0 - m ELSE m, e)]

\* the value json.loads returns for a telemetry body: a dict of device id to
\* value (keys in document order), or a value of another type
SDoc(isdict, keys, d) == [isdict |-> isdict, keys |-> keys, d |-> d]
NoSDoc == SDoc(FALSE, <<>>, EmptyDict)

SensorJson(doc) == [kind |-> "json", doc |-> doc, text |-> <<>>]
SensorText(text) == [kind |-> "text", doc |-> NoSDoc, text |-> text]

\* {"s1":"12.5"}, {"s1":"1195.0","s2":"abc"}, {"s1":12}, a JSON array,
\* 's1:12.50, s2 : on' and 'garbage'
SensorPayloads ==
    { SensorJson(SDoc(TRUE, <<S1>>, DictSet(EmptyDict, S1, VStr(<<"1", "2", ".", "5">>)))),
      SensorJson(SDoc(TRUE, <<S1, S2>>,
                      DictSet(DictSet(EmptyDict, S1, VStr(<<"1", "1", "9", "5", ".", "0">>)),
                              S2, VStr(<<"a", "b", "c">>)))),
      SensorJson(SDoc(TRUE, <<S1>>, DictSet(EmptyDict, S1, VInt(12)))),
      SensorJson(NoSDoc),
      SensorText(<<"s", "1", ":", "1", "2", ".", "5", "0", ",", " ", "s", "2", " ", ":",
                   " ", "o", "n">>),
      SensorText(<<"g", "a", "r", "b", "a", "g", "e">>) }

\* the loop over sensor_data.items(): a str value becomes float(value)
\* when that parses
Coerce(value) ==
    IF value.t = "str"
    THEN LET f == ParseFloat(value.s) IN IF f.ok THEN f.v ELSE value
    ELSE value

JsonSample(doc) == [k \in DOMAIN doc.d |-> Coerce(doc.d[k])]

RECURSIVE TextSampleFrom(_, _)
\* the loop over data.split(',')
TextSampleFrom(entries, sensor_dict) ==
    IF Len(entries) = 0 THEN sensor_dict
    ELSE LET entry == Head(entries)
         IN  IF Contains(entry, ":")
             THEN LET kv == Split1(entry, ":")
                      f == ParseFloat(Strip(kv[2]))
                  IN  TextSampleFrom(Tail(entries),
                        DictSet(sensor_dict, Strip(kv[1]),
                                IF f.ok THEN f.v ELSE VStr(Strip(kv[2]))))
             ELSE TextSampleFrom(Tail(entries), sensor_dict)

TextSample(text) == TextSampleFrom(Split(text, ","), EmptyDict)

\* deque(maxlen).append keeps every sample
DequeAppendNoEvict(q, x, maxlen) == Append(q, x)

\* deque(maxlen).append: a full deque drops its oldest element
DequeAppend(q, x, maxlen) ==
    IF Len(q) >= maxlen THEN Tail(q) \o <<x>> ELSE Append(q, x)

\* self.display_interval, in seconds
display_interval == 2

NoData == SensorText(<<>>)

TelemInit ==
    /\ sensor_data_list = <<>>
    /\ rt_clock = 0
    /\ rt_appended = <<>>
    /\ rt_data = NoData
    /\ rt_now = 0
    /\ last_display_time = 0
    /\ gs_result = <<>>

\* a handler that stores a sample only while a display is due
YieldsSampleWhenDue(data) ==
    /\ data.kind = "text" \/ data.doc.isdict
    /\ rt_now - last_display_time >= display_interval

\* the sample a payload yields at clock reading k, where it yields one: a
\* JSON value that is no dict raises at .items() and is dropped
YieldsSample(data) == data.kind = "text" \/ data.doc.isdict

SampleOf(data, k) ==
    DictSet(IF data.kind = "json" THEN JsonSample(data.doc) ELSE TextSample(data.text),
            TIMESTAMP, VTime(k))

\* _process_sensor_data(data)
ProcessSensorData(data) ==
    /\ rt_clock < MaxReadings
    /\ rt_clock' = rt_clock + 1
    /\ rt_data' = data
    /\ IF YieldsSample(data)
       THEN /\ sensor_data_list' =
                 DequeAppend(sensor_data_list, SampleOf(data, rt_clock'), max_data_points)
            /\ rt_appended' = Append(rt_appended, SampleOf(data, rt_clock'))
       ELSE UNCHANGED <<sensor_data_list, rt_appended>>

\* lines 644-647 of run: display the history when the interval has passed
DisplayWhenDue ==
    /\ last_display_time' =
         IF rt_now - last_display_time >= display_interval
         THEN rt_now ELSE last_display_time
    /\ UNCHANGED rt_now

\* a message of the peer reaches the handler (lines 641-647)
ReceiveSensorData ==
    \E data \in SensorPayloads : ProcessSensorData(data) /\ DisplayWhenDue

\* a second passes
Tick ==
    /\ rt_now < MaxTime
    /\ rt_now' = rt_now + 1
    /\ UNCHANGED <<sensor_data_list, rt_clock, rt_appended, rt_data, last_display_time>>

\* get_sensor_data(count): the whole history for count = 0 (None), else
\* its last count samples
GetSensorData(count) ==
    IF count = 0 \/ count >= Len(sensor_data_list) THEN sensor_data_list
    ELSE SubSeq(sensor_data_list, Len(sensor_data_list) - count + 1, Len(sensor_data_list))

\* the object a reference points to is the sample appended at that reading
SampleId(sample) == sample[TIMESTAMP].m

\* lines 814-818: list(self.sensor_data_list), its slice or its copy, is a
\* new list that holds the deque's own sample dicts
CallGetSensorData(count) ==
    /\ gs_result' = [i \in DOMAIN GetSensorData(count) |->
                        SampleId(GetSensorData(count)[i])]
    /\ UNCHANGED telemVars

\* the caller removes the first element of the list it was handed
MutateReturnedList ==
    /\ gs_result # <<>>
    /\ gs_result' = Tail(gs_result)
    /\ UNCHANGED telemVars

\* the caller assigns result[i]['x'] = 'x' in the list it was handed: the
\* dict is the one the deque holds, if it is still stored
MutateReturnedSample(i) ==
    /\ i \in DOMAIN gs_result
    /\ sensor_data_list' =
         [j \in DOMAIN sensor_data_list |->
            IF SampleId(sensor_data_list[j]) = gs_result[i]
            THEN DictSet(sensor_data_list[j], X, VStr(X))
            ELSE sensor_data_list[j]]
    /\ UNCHANGED <<rt_clock, rt_appended, rt_data, rt_now, last_display_time,
                   gs_result>>

\* clear_sensor_data()
ClearSensorData ==
    /\ sensor_data_list' = <<>>
    /\ rt_appended' = <<>>
    /\ UNCHANGED <<rt_clock, rt_data, rt_now, last_display_time>>

----------------------------------------------------------------------------
(* NodeUpdateThread.run: accept one peer and read its messages.            *)
(* RealTimeDataThread.run (lines 588-702) reads the same way.  Bytes are    *)
(* integers 0..255.  A blocking recv either finds bytes, finds the end of  *)
(* the stream, fails, or times out while nothing has arrived.              *)

\* a chunk size no message of the model reaches
RecvMax == 4096
\* lengths a peeked header may announce
MaxLength == 65536

\* chr of a decoded ASCII byte
Chr(b) ==
    CASE b = 0 -> "NUL" [] b = 1 -> "SOH" [] b = 2 -> "STX" [] b = 3 -> "ETX"
      [] b = 9 -> "\t" [] b = 32 -> " " [] b = 34 -> "\"" [] b = 44 -> ","
      [] b = 48 -> "0" [] b = 49 -> "1" [] b = 50 -> "2" [] b = 51 -> "3"
      [] b = 52 -> "4" [] b = 53 -> "5" [] b = 54 -> "6" [] b = 55 -> "7"
      [] b = 56 -> "8" [] b = 57 -> "9"
      [] b = 58 -> ":" [] b = 97 -> "a" [] b = 123 -> "{"
      [] b = 124 -> "|" [] b = 125 -> "}" [] b = 127 -> "DEL"

RECURSIVE Decode(_)
\* bytes.decode('utf-8', errors='ignore') for ASCII bytes and the byte 0xFF,
\* which no UTF-8 sequence holds and is left out
Decode(bytes) ==
    IF Len(bytes) = 0 THEN <<>>
    ELSE (IF Head(bytes) < 128 THEN <<Chr(Head(bytes))>> ELSE <<>>) \o Decode(Tail(bytes))

\* int.from_bytes(b, byteorder='big') of 4 bytes
FromBytes(b) == ((b[1] * 256 + b[2]) * 256 + b[3]) * 256 + b[4]

\* n.to_bytes(4, byteorder='big')
ToBytes(n) ==
    <<(n \div 16777216) % 256, (n \div 65536) % 256, (n \div 256) % 256, n % 256>>

\* the first n elements of s, and the rest
Take(s, n) == SubSeq(s, 1, IF n < Len(s) THEN n ELSE Len(s))
Drop(s, n) == SubSeq(s, (IF n < Len(s) THEN n ELSE Len(s)) + 1, Len(s))

Min(a, b) == IF a < b THEN a ELSE b

\* the peer's messages: the frames of 'a' and of ':a', and the raw chunk 'a'
FramePayloads == {<<97>>, <<58, 97>>}
PeerMessages ==
    { [kind |-> "frame", bytes |-> b] : b \in FramePayloads }
    \cup { [kind |-> "raw", bytes |-> <<97>>] }

\* a frame cut short: the header announces one byte more than the peer
\* sends before it closes
TruncatedMessages == { [kind |-> "truncated", bytes |-> <<97>>] }

\* what the peer writes for a message (test_client.py: header, then body)
WireBytes(msg) ==
    CASE msg.kind = "frame" -> ToBytes(Len(msg.bytes)) \o msg.bytes
      [] msg.kind = "truncated" -> ToBytes(Len(msg.bytes) + 1) \o msg.bytes
      [] OTHER -> msg.bytes

\* a test that takes MaxLength itself for a length
LengthPrefixedInclusive(potential_length) ==
    0 < potential_length /\ potential_length <= MaxLength

\* line 144: the peeked value is taken for the length of a frame
LengthPrefixed(potential_length) ==
    0 < potential_length /\ potential_length < MaxLength

\* the stream has ended: the peer closed and every byte was read
AtEof == f_end = "fin" /\ f_wire = <<>> /\ f_rbuf = <<>>

\* what _process_node_update leaves in the store for data, as one step
ApplyNodeUpdate(store, data) ==
    IF data.kind = "json"
    THEN IF data.doc.isdict
         THEN <<JsonDevices(store[1], data.doc), JsonNodes(store[2], data.doc)>>
         ELSE store
    ELSE LET parts == Split(data.text, "|")
         IN  <<ParseDevices(parts[1]),
               IF Len(parts) >= 2 THEN ParseNodes(parts[2]) ELSE store[2]>>

\* json.loads of a decoded body: no string of the model's bytes is JSON
LoadPayload(str) == TextPayload(str, NoSrc)

\* self._process_node_update(str) called from run
Handle(str) ==
    /\ f_handled' = Append(f_handled, str)
    /\ LET after == ApplyNodeUpdate(Store, LoadPayload(str))
       IN  connected_devices' = after[1] /\ broadcast_node_list' = after[2]

NoHandle == UNCHANGED <<f_handled, connected_devices, broadcast_node_list>>

(* RealTimeDataThread.run: the same reading loop, handing to                *)
(* _process_sensor_data and then checking the display interval             *)

\* the body {"a":"1"} the peer sends to the Telemetry endpoint, with the
\* length prefix or as one raw chunk, as bytes and as the dict json.loads
\* returns for it
SensorBody == <<123, 34, 97, 34, 58, 34, 49, 34, 125>>
SensorBodyDoc == SDoc(TRUE, <<<<"a">>>>, DictSet(EmptyDict, <<"a">>, VStr(<<"1">>)))
SensorMessages == { [kind |-> k, bytes |-> SensorBody] : k \in {"frame", "raw"} }

\* a JSON string literal with no escapes, and a JSON integer
IsJsonString(s) ==
    /\ Len(s) >= 2 /\ s[1] = "\"" /\ s[Len(s)] = "\""
    /\ \A i \in 2..(Len(s) - 1) : s[i] \notin {"\"", "NUL", "\t"}
IsJsonNumber(s) ==
    /\ Len(s) >= 1 /\ \A i \in 1..Len(s) : IsDigit(s[i])
    /\ Len(s) > 1 => s[1] # "0"

\* json.loads of a decoded part of the stream that carries SensorBody:
\* the body itself (whitespace around it is allowed) is the dict, a string
\* literal or a number is a value of another type, anything else raises
\* JSONDecodeError and is taken as text
LoadSensor(str) ==
    IF Strip(str) = Decode(SensorBody) THEN SensorJson(SensorBodyDoc)
    ELSE IF IsJsonString(Strip(str)) \/ IsJsonNumber(Strip(str)) THEN SensorJson(NoSDoc)
    ELSE SensorText(str)

\* self._process_sensor_data(str) called from run, then lines 644-647
RtHandle(str) ==
    /\ f_handled' = Append(f_handled, str)
    /\ ProcessSensorData(LoadSensor(str))
    /\ DisplayWhenDue
    /\ UNCHANGED <<connected_devices, broadcast_node_list>>

RtNoHandle ==
    UNCHANGED <<f_handled, connected_devices, broadcast_node_list, telemVars>>

\* the handler call of the endpoint whose loop is reading
HandleAt(endpoint, str) ==
    IF endpoint = "topology" THEN Handle(str) ELSE RtHandle(str)

NoHandleAt(endpoint) ==
    IF endpoint = "topology" THEN NoHandle ELSE RtNoHandle

FrameInit ==
    /\ f_pc = "accept"
    /\ f_connected = FALSE
    /\ f_client_sock = "none"
    /\ f_data_length = 0
    /\ f_data_parts = <<>>
    /\ f_peer = "absent"
    /\ f_wire = <<>>
    /\ f_rbuf = <<>>
    /\ f_end = "open"
    /\ f_sent = <<>>
    /\ f_handled = <<>>
    /\ f_conns = 0

(* the peer *)

\* connect(): the connection waits in the listen backlog
PeerConnect ==
    /\ f_peer = "absent"
    /\ f_conns < MaxConns
    /\ f_conns' = f_conns + 1
    /\ f_peer' = "pending"
    /\ f_wire' = <<>> /\ f_rbuf' = <<>> /\ f_end' = "open"
    /\ f_sent' = <<>> /\ f_handled' = <<>>
    /\ UNCHANGED <<f_pc, f_connected, f_client_sock, f_data_length, f_data_parts,
                   connected_devices, broadcast_node_list>>

\* sendall() of one message
PeerSend(msg) ==
    /\ f_peer \in {"pending", "accepted"}
    /\ f_end = "open"
    /\ Len(f_sent) < MaxSends
    /\ f_wire' = f_wire \o WireBytes(msg)
    /\ f_sent' = Append(f_sent, msg)
    /\ UNCHANGED <<f_pc, f_connected, f_client_sock, f_data_length, f_data_parts,
                   f_peer, f_rbuf, f_end, f_handled, f_conns,
                   connected_devices, broadcast_node_list>>

\* one more byte reaches the receive buffer
Arrive ==
    /\ f_wire # <<>>
    /\ f_end # "rst"
    /\ f_rbuf' = Append(f_rbuf, Head(f_wire))
    /\ f_wire' = Tail(f_wire)
    /\ UNCHANGED <<f_pc, f_connected, f_client_sock, f_data_length, f_data_parts,
                   f_peer, f_end, f_sent, f_conns, f_handled,
                   connected_devices, broadcast_node_list>>

\* close() by the peer
PeerClose ==
    /\ f_peer \in {"pending", "accepted"}
    /\ f_end = "open"
    /\ f_end' = "fin"
    /\ UNCHANGED <<f_pc, f_connected, f_client_sock, f_data_length, f_data_parts,
                   f_peer, f_wire, f_rbuf, f_sent, f_conns, f_handled,
                   connected_devices, broadcast_node_list>>

\* the connection is reset: what was not read is lost
PeerReset ==
    /\ f_peer = "accepted"
    /\ f_end = "open"
    /\ f_end' = "rst"
    /\ f_wire' = <<>> /\ f_rbuf' = <<>>
    /\ UNCHANGED <<f_pc, f_connected, f_client_sock, f_data_length, f_data_parts,
                   f_peer, f_sent, f_conns, f_handled,
                   connected_devices, broadcast_node_list>>

(* the worker *)

\* a handler that leaves the stale socket in place
DisconnectKeepSocket ==
    /\ f_connected' = FALSE
    /\ f_client_sock' = f_client_sock
    /\ f_peer' = "absent"
    /\ f_pc' = "accept"
    /\ f_data_length' = 0 /\ f_data_parts' = <<>>

\* lines 186-196: the handler of a receive error
Disconnect ==
    /\ f_connected' = FALSE
    /\ f_client_sock' = "none"
    /\ f_peer' = "absent"
    /\ f_pc' = "accept"
    /\ f_data_length' = 0 /\ f_data_parts' = <<>>

\* lines 110-123: accept, or its timeout while nobody is waiting
Accept ==
    /\ f_pc = "accept"
    /\ ~f_connected
    /\ IF f_peer = "pending"
       THEN /\ f_client_sock' = "open"
            /\ f_connected' = TRUE
            /\ f_peer' = "accepted"
            /\ f_pc' = "peek"
       ELSE UNCHANGED <<f_client_sock, f_connected, f_peer, f_pc>>
    /\ UNCHANGED <<f_data_length, f_data_parts, f_wire, f_rbuf, f_end, f_sent, f_conns>>
    /\ NoHandle

\* lines 136-169: recv(4, MSG_PEEK) with the 0.5 s timeout
Peek ==
    /\ f_pc = "peek"
    /\ f_connected /\ f_client_sock = "open"
    /\ IF f_end = "rst" THEN Disconnect
       ELSE IF f_rbuf = <<>> /\ ~AtEof
       THEN \* socket.timeout: continue
            UNCHANGED <<f_pc, f_connected, f_client_sock, f_peer,
                        f_data_length, f_data_parts>>
       ELSE LET peek_data == Take(f_rbuf, 4)
            IN  /\ IF Len(peek_data) = 4 /\ LengthPrefixed(FromBytes(peek_data))
                   THEN f_pc' = "header" /\ f_data_length' = FromBytes(peek_data)
                   ELSE f_pc' = "raw" /\ f_data_length' = 0
                /\ f_data_parts' = <<>>
                /\ UNCHANGED <<f_connected, f_client_sock, f_peer>>
    /\ UNCHANGED <<f_wire, f_rbuf, f_end, f_sent, f_conns>>
    /\ NoHandle

\* line 146: recv(4) consumes the header that was peeked
ConsumeHeader ==
    /\ f_pc = "header"
    /\ IF f_end = "rst"
       THEN Disconnect /\ UNCHANGED f_rbuf
       ELSE /\ f_rbuf' = Drop(f_rbuf, 4)
            /\ f_pc' = "chunk"
            /\ UNCHANGED <<f_connected, f_client_sock, f_peer,
                           f_data_length, f_data_parts>>
    /\ UNCHANGED <<f_wire, f_end, f_sent, f_conns>>
    /\ NoHandle

\* lines 152-162: one recv of the exact-count loop; the last one hands the
\* frame to the handler
RecvChunkAt(endpoint) ==
    /\ f_pc = "chunk"
    /\ IF f_end = "rst" \/ AtEof
       THEN \* a receive error, or b'' and the ConnectionError of line 155
            Disconnect /\ UNCHANGED f_rbuf /\ NoHandleAt(endpoint)
       ELSE IF f_rbuf = <<>>
       THEN \* socket.timeout, caught at line 166: continue
            /\ f_pc' = "peek"
            /\ f_data_length' = 0 /\ f_data_parts' = <<>>
            /\ UNCHANGED <<f_connected, f_client_sock, f_peer, f_rbuf>>
            /\ NoHandleAt(endpoint)
       ELSE LET n == Min(RecvMax, f_data_length - Len(f_data_parts))
                parts == f_data_parts \o Take(f_rbuf, n)
            IN  /\ f_rbuf' = Drop(f_rbuf, n)
                /\ IF Len(parts) < f_data_length
                   THEN /\ f_data_parts' = parts
                        /\ UNCHANGED <<f_pc, f_data_length>>
                        /\ NoHandleAt(endpoint)
                   ELSE /\ HandleAt(endpoint, Decode(parts))
                        /\ f_pc' = "peek"
                        /\ f_data_length' = 0 /\ f_data_parts' = <<>>
                /\ UNCHANGED <<f_connected, f_client_sock, f_peer>>
    /\ UNCHANGED <<f_wire, f_end, f_sent, f_conns>>

\* lines 172-185: the raw fallback, one recv(4096) with the long timeout
RecvRawAt(endpoint) ==
    /\ f_pc = "raw"
    /\ IF f_end = "rst" \/ AtEof
       THEN \* a receive error, or b'' and the ConnectionError of line 175
            Disconnect /\ UNCHANGED f_rbuf /\ NoHandleAt(endpoint)
       ELSE IF f_rbuf = <<>>
       THEN \* socket.timeout, caught at line 183: pass
            /\ f_pc' = "peek"
            /\ UNCHANGED <<f_connected, f_client_sock, f_peer, f_rbuf,
                           f_data_length, f_data_parts>>
            /\ NoHandleAt(endpoint)
       ELSE LET data == Strip(Decode(Take(f_rbuf, RecvMax)))
            IN  /\ f_rbuf' = Drop(f_rbuf, RecvMax)
                /\ IF data # <<>> THEN HandleAt(endpoint, data) ELSE NoHandleAt(endpoint)
                /\ f_pc' = "peek"
                /\ UNCHANGED <<f_connected, f_client_sock, f_peer,
                               f_data_length, f_data_parts>>
    /\ UNCHANGED <<f_wire, f_end, f_sent, f_conns>>

RecvChunk == RecvChunkAt("topology")
RecvRaw == RecvRawAt("topology")

\* RealTimeDataThread.run, lines 633-650 and 660-675
RtRecvChunk == RecvChunkAt("telemetry")
RtRecvRaw == RecvRawAt("telemetry")

----------------------------------------------------------------------------
(* CommandHandlerThread: run, _send_raw_command and send_command.          *)
(* The worker's positions are the blocking calls of run and the statements *)
(* between them; command_lock is "free" or names its holder.               *)

\* the command of the n-th call of send_command: its number, as text
CommandOf(n) == DecStr(n)

NoCommand == <<>>

\* the threads that call send_command: the CommandInputThread, and another
\* user of the method
Callers == {"input", "other"}

\* a queue after popleft() that leaves the entry in
PopLeftKeep(q) == q

\* what deque.popleft() leaves in the queue
PopLeft(q) == Tail(q)

\* c_end is "open", "fin" once the peer closed, "eof" once a recv returned
\* b'' for it, "rst" once the connection was reset and "dead" once a recv
\* raised for it

\* a recv returns b'': the peer closed and every byte was read, or the reset
\* was already reported
CmdAtEof == c_end \in {"fin", "eof", "dead"} /\ c_wire = <<>> /\ c_rbuf = <<>>

\* c_end after a recv that returned b''
EndSeen == IF c_end = "fin" THEN "eof" ELSE c_end

CmdInit ==
    /\ c_pc = "top"
    /\ c_connected = FALSE
    /\ c_client_sock = "none"
    /\ c_command = NoCommand
    /\ c_ret = "none"
    /\ c_response_length = 0
    /\ command_queue = <<>>
    /\ command_lock = "free"
    /\ sc_pc = [t \in Callers |-> "idle"]
    /\ sc_command = [t \in Callers |-> NoCommand]
    /\ sc_calls = 0
    /\ enqueued = <<>>
    /\ dequeued = <<>>
    /\ held = {}
    /\ c_failed = {}
    /\ c_taken = 0
    /\ c_peer = "absent"
    /\ c_wire = <<>>
    /\ c_rbuf = <<>>
    /\ c_end = "open"
    /\ c_sent = <<>>
    /\ c_out = <<>>

workerVars == <<c_pc, c_connected, c_client_sock, c_command, c_ret, c_response_length,
                dequeued, c_failed, c_taken>>
callerVars == <<sc_pc, sc_command, sc_calls, enqueued, held>>
connVars == <<c_peer, c_wire, c_rbuf, c_end, c_sent, c_out>>

(* send_command, lines 523-527 *)

\* thread t calls send_command(command) and waits for command_lock
SendCommandCall(t) ==
    /\ sc_pc[t] = "idle"
    /\ sc_calls < MaxCommands
    /\ sc_command' = [sc_command EXCEPT ![t] = CommandOf(sc_calls + 1)]
    /\ sc_pc' = [sc_pc EXCEPT ![t] = "waiting"]
    /\ sc_calls' = sc_calls + 1
    /\ UNCHANGED <<workerVars, connVars, command_queue, command_lock, enqueued, held>>

\* the endpoint holds no connection, or the peer of the one it holds has
\* closed or reset it
NoOpenPeer == ~c_connected \/ c_end # "open"

\* with self.command_lock: self.command_queue.append(command)
SendCommandAppend(t) ==
    /\ sc_pc[t] = "waiting"
    /\ command_lock = "free"
    /\ command_queue' = Append(command_queue, sc_command[t])
    /\ enqueued' = Append(enqueued, sc_command[t])
    /\ held' = IF NoOpenPeer THEN held \cup {sc_command[t]} ELSE held
    /\ sc_pc' = [sc_pc EXCEPT ![t] = "idle"]
    /\ sc_command' = [sc_command EXCEPT ![t] = NoCommand]
    /\ UNCHANGED <<workerVars, connVars, command_lock, sc_calls>>

(* the peer of the Command endpoint *)

CmdPeerConnect ==
    /\ c_peer = "absent"
    /\ c_peer' = "pending"
    /\ c_wire' = <<>> /\ c_rbuf' = <<>> /\ c_end' = "open"
    /\ c_sent' = <<>> /\ c_out' = <<>>
    /\ UNCHANGED <<workerVars, callerVars, command_queue, command_lock>>

\* sendall() of a message by the peer, which sends one and then listens
CmdPeerSend(msg) ==
    /\ c_peer \in {"pending", "accepted"}
    /\ c_end = "open"
    /\ c_sent = <<>>
    /\ c_wire' = c_wire \o WireBytes(msg)
    /\ c_sent' = Append(c_sent, msg)
    /\ UNCHANGED <<workerVars, callerVars, command_queue, command_lock,
                   c_peer, c_rbuf, c_end, c_out>>

CmdArrive ==
    /\ c_wire # <<>>
    /\ c_end \in {"open", "fin"}
    /\ c_rbuf' = Append(c_rbuf, Head(c_wire))
    /\ c_wire' = Tail(c_wire)
    /\ UNCHANGED <<workerVars, callerVars, command_queue, command_lock,
                   c_peer, c_end, c_sent, c_out>>

CmdPeerClose ==
    /\ c_peer \in {"pending", "accepted"}
    /\ c_end = "open"
    /\ c_end' = "fin"
    /\ UNCHANGED <<workerVars, callerVars, command_queue, command_lock,
                   c_peer, c_wire, c_rbuf, c_sent, c_out>>

CmdPeerReset ==
    /\ c_peer = "accepted"
    /\ c_end = "open"
    /\ c_end' = "rst"
    /\ c_wire' = <<>> /\ c_rbuf' = <<>>
    /\ UNCHANGED <<workerVars, callerVars, command_queue, command_lock,
                   c_peer, c_sent, c_out>>

(* the worker: CommandHandlerThread.run *)

\* lines 375-401: the top of the loop, with accept while not connected
CmdTop ==
    /\ c_pc = "top"
    /\ IF ~c_connected
       THEN IF c_peer = "pending"
            THEN /\ c_client_sock' = "open"
                 /\ c_connected' = TRUE
                 /\ c_peer' = "accepted"
                 /\ c_pc' = "inbound"
                 /\ held' = {}
            ELSE \* socket.timeout: continue
                 UNCHANGED <<c_client_sock, c_connected, c_peer, c_pc, held>>
       ELSE /\ c_pc' = IF c_client_sock = "none" THEN "top" ELSE "inbound"
            /\ UNCHANGED <<c_client_sock, c_connected, c_peer, held>>
    /\ c_taken' = 0
    /\ UNCHANGED <<c_command, c_ret, c_response_length, sc_pc, sc_command, sc_calls,
                   enqueued, dequeued, c_failed,
                   command_queue, command_lock, c_wire, c_rbuf, c_end, c_sent, c_out>>

\* lines 405-415: recv(4096) with the 0.1 s timeout
CmdInbound ==
    /\ c_pc = "inbound"
    /\ IF c_end = "rst"
       THEN \* except Exception, line 422
            /\ c_pc' = "in_error" /\ c_end' = "dead"
            /\ UNCHANGED <<c_command, c_ret, c_rbuf>>
       ELSE IF CmdAtEof
       THEN \* raw_data == b''
            /\ c_pc' = "in_nodata" /\ c_end' = EndSeen
            /\ UNCHANGED <<c_command, c_ret, c_rbuf>>
       ELSE IF c_rbuf = <<>>
       THEN \* socket.timeout, line 418
            /\ c_pc' = "in_timeout"
            /\ UNCHANGED <<c_command, c_ret, c_rbuf, c_end>>
       ELSE LET command == Strip(Decode(Take(c_rbuf, RecvMax)))
            IN  /\ c_rbuf' = Drop(c_rbuf, RecvMax)
                /\ IF command # <<>>
                   THEN c_pc' = "send" /\ c_command' = command /\ c_ret' = "lock"
                   ELSE c_pc' = "in_blank" /\ UNCHANGED <<c_command, c_ret>>
                /\ UNCHANGED c_end
    /\ UNCHANGED <<c_connected, c_client_sock, c_response_length, callerVars, dequeued, c_failed, c_taken,
                   command_queue, command_lock, c_peer, c_wire, c_sent, c_out>>

\* lines 416-428: the timeout is restored and the loop goes on to the queue
CmdInboundDone ==
    /\ c_pc \in {"in_nodata", "in_blank", "in_timeout", "in_error"}
    /\ c_pc' = "lock"
    /\ UNCHANGED <<c_connected, c_client_sock, c_command, c_ret, c_response_length,
                   callerVars, dequeued, c_failed, c_taken, command_queue, command_lock, connVars>>

\* line 431: with self.command_lock
CmdLock ==
    /\ c_pc = "lock"
    /\ command_lock = "free"
    /\ command_lock' = "worker"
    /\ c_pc' = "drain"
    /\ UNCHANGED <<c_connected, c_client_sock, c_command, c_ret, c_response_length,
                   callerVars, dequeued, c_failed, c_taken, command_queue, connVars>>

\* lines 432-437: one entry is taken off the queue, or the worker sleeps
CmdDrain ==
    /\ c_pc = "drain"
    /\ IF command_queue # <<>> /\ c_connected /\ c_client_sock # "none"
       THEN /\ c_command' = Head(command_queue)
            /\ command_queue' = PopLeft(command_queue)
            /\ dequeued' = Append(dequeued, Head(command_queue))
            /\ c_taken' = c_taken + 1
            /\ c_pc' = "send" /\ c_ret' = "unlock"
       ELSE /\ c_pc' = "sleep"
            /\ UNCHANGED <<c_command, command_queue, c_ret, dequeued, c_taken>>
    /\ UNCHANGED <<c_connected, c_client_sock, c_response_length,
                   callerVars, command_lock, connVars, c_failed>>

\* line 437: time.sleep(0.1) is over
CmdSleep ==
    /\ c_pc = "sleep"
    /\ c_pc' = "unlock"
    /\ UNCHANGED <<c_connected, c_client_sock, c_command, c_ret, c_response_length,
                   callerVars, dequeued, c_failed, c_taken, command_queue, command_lock, connVars>>

\* the end of the with block
CmdUnlock ==
    /\ c_pc = "unlock"
    /\ command_lock' = "free"
    /\ c_pc' = "top"
    /\ UNCHANGED <<c_connected, c_client_sock, c_command, c_ret, c_response_length,
                   callerVars, dequeued, c_failed, c_taken, command_queue, connVars>>

(* _send_raw_command, lines 466-521 *)

\* return to the caller in run
Return ==
    /\ c_pc' = c_ret
    /\ c_ret' = "none"
    /\ c_command' = NoCommand
    /\ c_response_length' = 0

\* ord of a character that is sent
Ord(ch) ==
    CASE ch = "NUL" -> 0 [] ch = "SOH" -> 1 [] ch = "STX" -> 2 [] ch = "ETX" -> 3
      [] ch = " " -> 32 [] ch = "," -> 44 [] ch = "0" -> 48 [] ch = "1" -> 49
      [] ch = "2" -> 50 [] ch = "3" -> 51 [] ch = "4" -> 52 [] ch = "5" -> 53
      [] ch = "6" -> 54 [] ch = "7" -> 55 [] ch = "8" -> 56 [] ch = "9" -> 57
      [] ch = ":" -> 58 [] ch = "a" -> 97 [] ch = "|" -> 124

\* the bytes of a command behind a 4-byte length
EncodeWithLength(str) == ToBytes(Len(str)) \o [i \in 1..Len(str) |-> Ord(str[i])]

\* line 475: command.encode('utf-8'), for ASCII characters
Encode(str) == [i \in 1..Len(str) |-> Ord(str[i])]

\* a failure handler that puts the command back at the head of the queue
RequeueFailed(queue, command) == <<command>> \o queue

\* lines 513-521: the failure handler does not touch command_queue
AfterSendFailure(queue, command) == queue

\* lines 468-477 and 513-521: the connected check and sendall
SendRawCommand ==
    /\ c_pc = "send"
    /\ IF c_client_sock = "none" \/ ~c_connected
       THEN /\ Return
            /\ UNCHANGED <<c_connected, c_client_sock, c_peer, c_wire, c_rbuf, c_end,
                           c_out, c_failed, command_queue>>
       ELSE IF c_end = "open"
       THEN /\ c_out' = Append(c_out, Encode(c_command))
            /\ c_pc' = "resp_peek"
            /\ UNCHANGED <<c_connected, c_client_sock, c_command, c_ret,
                           c_response_length, c_peer, c_wire, c_rbuf, c_end,
                           c_failed, command_queue>>
       ELSE IF c_end \in {"fin", "eof"}
       THEN \* the bytes leave, the closed peer answers with a reset sooner or later
            /\ c_pc' = "resp_peek"
            /\ \/ UNCHANGED <<c_wire, c_rbuf, c_end>>
               \/ c_end' = "rst" /\ c_wire' = <<>> /\ c_rbuf' = <<>>
            /\ UNCHANGED <<c_connected, c_client_sock, c_command, c_ret,
                           c_response_length, c_peer, c_out, c_failed, command_queue>>
       ELSE \* sendall raises: line 513
            /\ c_connected' = FALSE
            /\ c_client_sock' = "none"
            /\ c_peer' = "absent"
            /\ c_failed' = IF c_ret = "unlock" THEN c_failed \cup {c_command}
                           ELSE c_failed
            /\ command_queue' = AfterSendFailure(command_queue, c_command)
            /\ Return
            /\ UNCHANGED <<c_wire, c_rbuf, c_end, c_out>>
    /\ UNCHANGED <<callerVars, dequeued, c_taken, command_lock, c_sent>>

\* lines 481-496: recv(4, MSG_PEEK) with the 1.0 s timeout
RespPeek ==
    /\ c_pc = "resp_peek"
    /\ IF c_end = "rst"
       THEN \* except Exception, line 509
            Return /\ c_end' = "dead"
       ELSE IF c_rbuf = <<>> /\ ~CmdAtEof
       THEN \* socket.timeout, line 506
            Return /\ UNCHANGED c_end
       ELSE LET response_length_data == Take(c_rbuf, 4)
            IN  /\ IF /\ Len(response_length_data) = 4
                      /\ 0 < FromBytes(response_length_data)
                      /\ FromBytes(response_length_data) < MaxLength
                   THEN /\ c_pc' = "resp_header"
                        /\ c_response_length' = FromBytes(response_length_data)
                   ELSE /\ c_pc' = "resp_raw"
                        /\ UNCHANGED c_response_length
                /\ UNCHANGED <<c_command, c_ret, c_end>>
    /\ UNCHANGED <<c_connected, c_client_sock, callerVars, dequeued, c_failed, c_taken, command_queue, command_lock,
                   c_peer, c_wire, c_rbuf, c_sent, c_out>>

\* line 489: recv(4) consumes the header
RespHeader ==
    /\ c_pc = "resp_header"
    /\ IF c_end = "rst"
       THEN Return /\ c_end' = "dead" /\ UNCHANGED c_rbuf
       ELSE /\ c_rbuf' = Drop(c_rbuf, 4)
            /\ c_pc' = "resp_body"
            /\ UNCHANGED <<c_command, c_ret, c_response_length, c_end>>
    /\ UNCHANGED <<c_connected, c_client_sock, callerVars, dequeued, c_failed, c_taken, command_queue, command_lock,
                   c_peer, c_wire, c_sent, c_out>>

\* lines 490-494: one recv(response_length), whatever it returns
RespBody ==
    /\ c_pc = "resp_body"
    /\ IF c_end = "rst"
       THEN Return /\ c_end' = "dead" /\ UNCHANGED c_rbuf
       ELSE /\ Return
            /\ c_rbuf' = Drop(c_rbuf, c_response_length)
            /\ c_end' = IF CmdAtEof THEN EndSeen ELSE c_end
    /\ UNCHANGED <<c_connected, c_client_sock, callerVars, dequeued, c_failed, c_taken, command_queue, command_lock,
                   c_peer, c_wire, c_sent, c_out>>

\* lines 498-511: the raw response, one recv(4096)
RespRaw ==
    /\ c_pc = "resp_raw"
    /\ IF c_end = "rst"
       THEN Return /\ c_end' = "dead" /\ UNCHANGED c_rbuf
       ELSE /\ Return
            /\ c_rbuf' = Drop(c_rbuf, RecvMax)
            /\ c_end' = IF CmdAtEof THEN EndSeen ELSE c_end
    /\ UNCHANGED <<c_connected, c_client_sock, callerVars, dequeued, c_failed, c_taken, command_queue, command_lock,
                   c_peer, c_wire, c_sent, c_out>>

----------------------------------------------------------------------------
(* Threads: NodeUpdateThread.run and stop statement by statement, the      *)
(* CommandInputThread, and the main thread with start_all and stop_all.    *)
(* The CommandHandlerThread and the RealTimeDataThread are followed as     *)
(* threads (unstarted, alive or terminated) and, in ep, by their flags and *)
(* their two sockets.                                                      *)

OtherThreads == {"command_handler", "realtime_data"}

\* __init__, lines 340-343 and 549-552: no sockets, both flags False
NewEndpoint ==
    [pc |-> "begin", running |-> FALSE, sock |-> "none",
     connected |-> FALSE, client_sock |-> "none"]

LifeInit ==
    /\ t_pc = "unstarted"
    /\ t_running = FALSE
    /\ t_sock = "none"
    /\ t_connected = FALSE
    /\ t_client_sock = "none"
    /\ t_peer = "absent"
    /\ t_second = "absent"
    /\ st_pc = "idle"
    /\ m_pc = "start_node"
    /\ m_running = FALSE
    /\ m_caller = "none"
    /\ in_pc = "unstarted"
    /\ in_running = FALSE
    /\ others = [w \in OtherThreads |-> "unstarted"]
    /\ ep = [w \in OtherThreads |-> NewEndpoint]

(* NodeUpdateThread.run *)

\* Thread.start(): the thread exists, run has not executed a statement yet
ThreadStart ==
    /\ t_pc = "unstarted"
    /\ t_pc' = "started"
    /\ UNCHANGED <<t_running, t_sock, t_connected, t_client_sock, t_peer, t_second, st_pc>>

\* line 81: self.running = True
RunBegin ==
    /\ t_pc = "started"
    /\ t_running' = TRUE
    /\ t_pc' = "create"
    /\ UNCHANGED <<t_sock, t_connected, t_client_sock, t_peer, t_second, st_pc>>

\* lines 86-105: the listener is created and bound, or the bind fails
CreateSocket ==
    /\ t_pc = "create"
    /\ IF t_sock = "none"
       THEN \/ t_sock' = "listening" /\ t_pc' = "loop"
            \/ t_sock' = "none" /\ t_pc' = "terminated"
       ELSE t_pc' = "loop" /\ UNCHANGED t_sock
    /\ UNCHANGED <<t_running, t_connected, t_client_sock, t_peer, t_second, st_pc>>

\* a loop that accepts whether or not a peer is connected
LoopTopAlwaysAccept ==
    /\ t_pc = "loop"
    /\ t_pc' = IF ~t_running THEN "cleanup" ELSE "accept"
    /\ UNCHANGED <<t_running, t_sock, t_connected, t_client_sock, t_peer, t_second, st_pc>>

\* lines 107-110: while self.running, and the choice between accepting and
\* receiving
LoopTop ==
    /\ t_pc = "loop"
    /\ t_pc' = IF ~t_running THEN "cleanup"
               ELSE IF ~t_connected THEN "accept" ELSE "client"
    /\ UNCHANGED <<t_running, t_sock, t_connected, t_client_sock, t_peer, t_second, st_pc>>

\* lines 112 and 116-123: accept returns the connection that waits (it
\* replaces whatever self.client_sock held), times out, or raises because
\* stop() closed or dropped the listener
AcceptCall ==
    /\ t_pc = "accept"
    /\ IF t_sock = "listening" /\ (t_peer = "pending" \/ t_second = "pending")
       THEN /\ t_client_sock' = "open"
            /\ t_peer' = "accepted"
            /\ t_second' = "absent"
            /\ t_pc' = "set_connected"
       ELSE /\ t_pc' = "loop"
            /\ UNCHANGED <<t_client_sock, t_peer, t_second>>
    /\ UNCHANGED <<t_running, t_sock, t_connected, st_pc>>

\* line 113: self.connected = True
SetConnected ==
    /\ t_pc = "set_connected"
    /\ t_connected' = TRUE
    /\ t_pc' = "set_timeout"
    /\ UNCHANGED <<t_running, t_sock, t_client_sock, t_peer, t_second, st_pc>>

\* line 114: self.client_sock.settimeout, which raises when stop() has
\* dropped the client socket (caught at line 119)
SetTimeout ==
    /\ t_pc = "set_timeout"
    /\ t_pc' = IF t_client_sock = "open" THEN "client" ELSE "loop"
    /\ UNCHANGED <<t_running, t_sock, t_connected, t_client_sock, t_peer, t_second, st_pc>>

\* lines 126-128: nothing to read from
ClientCheck ==
    /\ t_pc = "client"
    /\ t_pc' = IF t_client_sock = "none" \/ ~t_connected THEN "loop" ELSE "recv"
    /\ UNCHANGED <<t_running, t_sock, t_connected, t_client_sock, t_peer, t_second, st_pc>>

\* lines 131-185: one round of receiving; it ends at the loop top, or in the
\* handler of a receive error when the peer is gone or the socket was closed
\* or dropped by stop()
Receive ==
    /\ t_pc = "recv"
    /\ IF t_client_sock = "open" /\ t_peer = "accepted"
       THEN t_pc' = "loop"
       ELSE IF t_client_sock = "none"
       THEN \* seen at line 134, or only at the settimeout of line 136
            t_pc' \in {"loop", "disconnect"}
       ELSE t_pc' = "disconnect"
    /\ UNCHANGED <<t_running, t_sock, t_connected, t_client_sock, t_peer, t_second, st_pc>>

\* lines 186-196: the handler of a receive error
ReceiveError ==
    /\ t_pc = "disconnect"
    /\ t_connected' = FALSE
    /\ t_client_sock' = "none"
    /\ t_peer' = IF t_peer = "pending" THEN "pending" ELSE t_second
    /\ t_second' = IF t_peer = "pending" THEN t_second ELSE "absent"
    /\ t_pc' = "loop"
    /\ UNCHANGED <<t_running, t_sock, st_pc>>

\* lines 210-221: both sockets are closed, the references are kept
Cleanup ==
    /\ t_pc = "cleanup"
    /\ t_client_sock' = IF t_client_sock = "none" THEN "none" ELSE "closed"
    /\ t_sock' = IF t_sock = "none" THEN "none" ELSE "closed"
    /\ t_pc' = "terminated"
    /\ UNCHANGED <<t_running, t_connected, t_peer, t_second, st_pc>>

(* the peer of the endpoint *)

LifePeerConnect ==
    /\ t_peer = "absent"
    /\ t_sock = "listening"
    /\ t_peer' = "pending"
    /\ UNCHANGED <<t_pc, t_running, t_sock, t_connected, t_client_sock, t_second, st_pc>>

\* a second peer connects while the first peer's connection is held: it
\* waits in the listen backlog
SecondPeerConnect ==
    /\ t_peer \in {"accepted", "closed"}
    /\ t_second = "absent"
    /\ t_sock = "listening"
    /\ t_second' = "pending"
    /\ UNCHANGED <<t_pc, t_running, t_sock, t_connected, t_client_sock, t_peer, st_pc>>

LifePeerClose ==
    /\ t_peer = "accepted"
    /\ t_peer' = "closed"
    /\ UNCHANGED <<t_pc, t_running, t_sock, t_connected, t_client_sock, t_second, st_pc>>

(* NodeUpdateThread.stop, lines 314-329 *)

\* line 316: self.running = False
StopRunning ==
    /\ st_pc \in {"idle", "done"}
    /\ t_running' = FALSE
    /\ st_pc' = "connected"
    /\ UNCHANGED <<t_pc, t_sock, t_connected, t_client_sock, t_peer, t_second>>

\* line 317: self.connected = False
StopConnected ==
    /\ st_pc = "connected"
    /\ t_connected' = FALSE
    /\ st_pc' = "client_sock"
    /\ UNCHANGED <<t_pc, t_running, t_sock, t_client_sock, t_peer, t_second>>

\* lines 318-323: the client socket is closed and dropped
StopClientSock ==
    /\ st_pc = "client_sock"
    /\ t_client_sock' = "none"
    /\ IF t_client_sock = "open" /\ t_peer \in {"accepted", "closed"}
       THEN t_peer' = t_second /\ t_second' = "absent"
       ELSE UNCHANGED <<t_peer, t_second>>
    /\ st_pc' = "sock"
    /\ UNCHANGED <<t_pc, t_running, t_sock, t_connected>>

\* lines 324-329: the listener is closed and dropped
StopSock ==
    /\ st_pc = "sock"
    /\ t_sock' = "none"
    /\ t_peer' = IF t_peer = "pending" THEN "absent" ELSE t_peer
    /\ t_second' = "absent"
    /\ st_pc' = "done"
    /\ UNCHANGED <<t_pc, t_running, t_connected, t_client_sock>>

(* the CommandInputThread, lines 851-890 *)

\* line 853: self.running = True, and the first loop test
InputBegin ==
    /\ in_pc = "started"
    /\ in_running' = TRUE
    /\ in_pc' = "input"
    /\ UNCHANGED <<m_pc, m_running, m_caller, others, ep>>

\* input() returns a line: 'exit' breaks out of the loop, anything else is
\* dealt with and the loop tests self.running again
InputLine ==
    /\ in_pc = "input"
    /\ \E line \in {"exit", "command"} :
          IF line = "exit" \/ ~in_running
          THEN in_pc' = "terminated" /\ in_running' = FALSE
          ELSE UNCHANGED <<in_pc, in_running>>
    /\ UNCHANGED <<m_pc, m_running, m_caller, others, ep>>

\* the run of another endpoint thread returns
OtherExit(w) ==
    /\ others[w] = "alive"
    /\ others' = [others EXCEPT ![w] = "terminated"]
    /\ UNCHANGED <<m_pc, m_running, m_caller, in_pc, in_running, ep>>

(* CommandHandlerThread.run and RealTimeDataThread.run as stop_all and the *)
(* peers see them: the flags and the two sockets                           *)

\* lines 350 and 562: self.running = True
OtherRunBegin(w) ==
    /\ others[w] = "alive" /\ ep[w].pc = "begin"
    /\ ep' = [ep EXCEPT ![w].running = TRUE, ![w].pc = "create"]
    /\ UNCHANGED <<m_pc, m_running, m_caller, in_pc, in_running, others>>

\* lines 355-373 and 567-586: the listener is created and bound
OtherCreateSocket(w) ==
    /\ others[w] = "alive" /\ ep[w].pc = "create"
    /\ ep' = [ep EXCEPT ![w].sock = "listening", ![w].pc = "loop"]
    /\ UNCHANGED <<m_pc, m_running, m_caller, in_pc, in_running, others>>

\* lines 364-368 and 576-580: bind raises, the listener is closed and
\* dropped and run returns
OtherBindError(w) ==
    /\ others[w] = "alive" /\ ep[w].pc = "create"
    /\ ep' = [ep EXCEPT ![w].sock = "none", ![w].pc = "exited"]
    /\ others' = [others EXCEPT ![w] = "terminated"]
    /\ UNCHANGED <<m_pc, m_running, m_caller, in_pc, in_running>>

\* lines 378-387 and 590-596: accept returns the connection of a peer
OtherAccept(w) ==
    /\ others[w] = "alive" /\ ep[w].pc = "loop"
    /\ ep[w].running /\ ~ep[w].connected /\ ep[w].sock = "listening"
    /\ ep' = [ep EXCEPT ![w].client_sock = "open", ![w].connected = TRUE]
    /\ UNCHANGED <<m_pc, m_running, m_caller, in_pc, in_running, others>>

\* lines 513-521 and 676-690: a failed sendall, or a recv that found the
\* peer gone, drops the connection
OtherDisconnect(w) ==
    /\ others[w] = "alive" /\ ep[w].pc = "loop"
    /\ ep[w].running /\ ep[w].connected
    /\ ep' = [ep EXCEPT ![w].client_sock = "none", ![w].connected = FALSE]
    /\ UNCHANGED <<m_pc, m_running, m_caller, in_pc, in_running, others>>

\* lines 375, 453-464 and 588, 704-715: the loop test fails, both sockets
\* are closed (the references are kept) and run returns
OtherCleanup(w) ==
    /\ others[w] = "alive" /\ ep[w].pc = "loop"
    /\ ~ep[w].running
    /\ ep' = [ep EXCEPT
                ![w].client_sock = IF @ = "none" THEN "none" ELSE "closed",
                ![w].sock = IF @ = "none" THEN "none" ELSE "closed",
                ![w].pc = "exited"]
    /\ others' = [others EXCEPT ![w] = "terminated"]
    /\ UNCHANGED <<m_pc, m_running, m_caller, in_pc, in_running>>

(* the main thread: main, start_all, stop_all *)

NodeAlive == t_pc \notin {"unstarted", "terminated"}
InputAlive == in_pc \notin {"unstarted", "terminated"}
OtherAlive(w) == others[w] = "alive"

\* a test that looks at the three endpoint threads only
IsEndpointAlive == NodeAlive \/ \E w \in OtherThreads : OtherAlive(w)

\* a test that is true only while every thread is alive
IsAllAlive == NodeAlive /\ InputAlive /\ \A w \in OtherThreads : OtherAlive(w)

\* is_any_alive, lines 985-989
IsAnyAlive == NodeAlive \/ InputAlive \/ \E w \in OtherThreads : OtherAlive(w)

\* thread.join() without a timeout returns once the thread has ended
JoinUntilDead(alive) == ~alive

\* line 981: thread.join(timeout=2.0) returns once the thread has ended or
\* the two seconds are over
JoinReturns(alive) == TRUE

\* the daemon threads run as long as the process does
ProcessAlive == m_pc # "exited"

\* lines 942-951: self.running = True, the threads are created, the first
\* one is started
StartNodeUpdate ==
    /\ m_pc = "start_node"
    /\ m_running' = TRUE
    /\ ThreadStart
    /\ m_pc' = "start_cmd"
    /\ UNCHANGED <<m_caller, in_pc, in_running, others, ep>>

\* lines 953 and 955
StartOther(w, here, next) ==
    /\ m_pc = here
    /\ others' = [others EXCEPT ![w] = "alive"]
    /\ m_pc' = next
    /\ UNCHANGED <<m_running, m_caller, in_pc, in_running, ep, endpointVars, st_pc>>

\* line 957
StartInput ==
    /\ m_pc = "start_input"
    /\ in_pc' = "started"
    /\ m_pc' = "monitor"
    /\ UNCHANGED <<m_running, m_caller, in_running, others, ep, endpointVars, st_pc>>

\* lines 1043-1048: the monitoring loop ends and the finally block calls
\* stop_all
MonitorExit ==
    /\ m_pc = "monitor"
    /\ ~(m_running /\ IsAnyAlive)
    /\ m_pc' = "stop_all"
    /\ m_caller' = "finally"
    /\ UNCHANGED <<m_running, in_pc, in_running, others, ep, endpointVars, st_pc>>

\* lines 919-925: SIGINT or SIGTERM, signal_handler calls stop_all
Signal ==
    /\ m_pc = "monitor"
    /\ m_pc' = "stop_all"
    /\ m_caller' = "handler"
    /\ UNCHANGED <<m_running, in_pc, in_running, others, ep, endpointVars, st_pc>>

\* line 962: self.running = False
StopAllBegin ==
    /\ m_pc = "stop_all"
    /\ m_running' = FALSE
    /\ m_pc' = "stop_input"
    /\ UNCHANGED <<m_caller, in_pc, in_running, others, ep, endpointVars, st_pc>>

\* lines 964-965: CommandInputThread.stop
StopInput ==
    /\ m_pc = "stop_input"
    /\ in_running' = FALSE
    /\ m_pc' = "stop_node"
    /\ UNCHANGED <<m_running, m_caller, in_pc, others, ep, endpointVars, st_pc>>

\* lines 967-968: NodeUpdateThread.stop is called and runs its first statement
StopNodeCall ==
    /\ m_pc = "stop_node"
    /\ StopRunning
    /\ m_pc' = "in_stop"
    /\ UNCHANGED <<m_running, m_caller, in_pc, in_running, others, ep>>

\* the rest of NodeUpdateThread.stop, run by the main thread
StopNodeStep ==
    /\ m_pc = "in_stop"
    /\ (StopConnected \/ StopClientSock \/ StopSock)
    /\ UNCHANGED mgrVars

\* NodeUpdateThread.stop returns
StopNodeReturn ==
    /\ m_pc = "in_stop"
    /\ st_pc = "done"
    /\ m_pc' = "stop_cmd"
    /\ UNCHANGED <<m_running, m_caller, in_pc, in_running, others, ep, endpointVars, st_pc>>

\* CommandHandlerThread.stop, lines 529-538: the flags and the listener;
\* client_sock is not mentioned
CommandHandlerStop(e) ==
    [e EXCEPT !.running = FALSE, !.connected = FALSE, !.sock = "none"]

\* RealTimeDataThread.stop, lines 825-840
RealTimeDataStop(e) ==
    [e EXCEPT !.running = FALSE, !.connected = FALSE,
              !.client_sock = "none", !.sock = "none"]

\* lines 970-971: self.command_handler_thread.stop()
StopCommandHandler ==
    /\ m_pc = "stop_cmd"
    /\ ep' = [ep EXCEPT !["command_handler"] = CommandHandlerStop(@)]
    /\ m_pc' = "stop_rt"
    /\ UNCHANGED <<m_running, m_caller, in_pc, in_running, others, endpointVars, st_pc>>

\* lines 973-974: self.realtime_data_thread.stop()
StopRealTimeData ==
    /\ m_pc = "stop_rt"
    /\ ep' = [ep EXCEPT !["realtime_data"] = RealTimeDataStop(@)]
    /\ m_pc' = "join_node"
    /\ UNCHANGED <<m_running, m_caller, in_pc, in_running, others, endpointVars, st_pc>>

\* lines 977-983: thread.join(timeout=2.0) and the straggler warning
JoinThread(alive, here, next) ==
    /\ m_pc = here
    /\ JoinReturns(alive)
    /\ m_pc' = next
    /\ UNCHANGED <<m_running, m_caller, in_pc, in_running, others, ep, endpointVars, st_pc>>

\* stop_all returns: to signal_handler, whose sys.exit(0) runs the finally
\* block of main and stop_all a second time, or to main, which returns
StopAllReturn ==
    /\ m_pc = "stopped"
    /\ IF m_caller = "handler"
       THEN m_pc' = "stop_all" /\ m_caller' = "finally"
       ELSE m_pc' = "exited" /\ UNCHANGED m_caller
    /\ UNCHANGED <<m_running, in_pc, in_running, others, ep, endpointVars, st_pc>>

----------------------------------------------------------------------------
(* Specifications *)

\* the state after construction of every thread object
Init == TopoInit /\ TelemInit /\ FrameInit /\ CmdInit /\ LifeInit

(* the Topology handler fed by its peer, with a concurrent get_node_info *)
NextTopo ==
    \/ ReceiveNodeUpdate /\ UNCHANGED nonTopo
    \/ JsonUpdate /\ UNCHANGED nonTopo
    \/ TextDevices /\ UNCHANGED nonTopo
    \/ TextNodes /\ UNCHANGED nonTopo
    \/ DisplayNodeUpdate /\ UNCHANGED nonTopo
    \/ NodeUpdateReturn /\ UNCHANGED nonTopo
    \/ GetNodeInfo /\ UNCHANGED nonTopo

SpecTopo == Init /\ [][NextTopo]_vars

(* _process_node_update applied once to a text body, from a store it may find *)

InitTopoText ==
    /\ nu_arg \in TextPayloads(MaxTextEntries, MaxTextNodes) \cup TwoPipePayloads
    /\ \E prior \in TextPriors :
          connected_devices = prior[1] /\ broadcast_node_list = prior[2]
    /\ nu_pc = "idle"
    /\ nu_data = NoPayload
    /\ nu_prior = <<EmptyDict, <<>>>>
    /\ ni_result = <<EmptyDict, <<>>>>
    /\ ni_during = FALSE
    /\ TelemInit /\ FrameInit /\ CmdInit /\ LifeInit

\* the call _process_node_update(nu_arg)
CallProcessNodeUpdate ==
    /\ nu_arg # NoPayload
    /\ ProcessNodeUpdate(nu_arg)
    /\ nu_arg' = NoPayload

NextTopoText ==
    \/ CallProcessNodeUpdate /\ UNCHANGED nonTopo
    \/ TextDevices /\ UNCHANGED nonTopo
    \/ TextNodes /\ UNCHANGED nonTopo
    \/ DisplayNodeUpdate /\ UNCHANGED nonTopo

(* the Telemetry handler fed by its peer, with clear_sensor_data *)
NextTelem ==
    \/ ReceiveSensorData /\ UNCHANGED nonTelem
    \/ ClearSensorData /\ UNCHANGED nonTelem
    \/ Tick /\ UNCHANGED nonTelem

SpecTelem == Init /\ [][NextTelem]_vars

(* the Telemetry handler and a caller of get_sensor_data that changes what *)
(* it was handed                                                           *)
NextSnapshot ==
    \/ ReceiveSensorData /\ UNCHANGED nonTelem
    \/ (\E count \in 0..max_data_points : CallGetSensorData(count))
          /\ UNCHANGED <<topoVars, frameVars, cmdVars, lifeVars>>
    \/ MutateReturnedList
          /\ UNCHANGED <<topoVars, frameVars, cmdVars, lifeVars>>
    \/ (\E i \in 1..max_data_points : MutateReturnedSample(i))
          /\ UNCHANGED <<topoVars, frameVars, cmdVars, lifeVars>>

SpecSnapshot == Init /\ [][NextSnapshot]_vars

(* the Topology reading loop and its peer *)
NextFrame ==
    \/ PeerConnect /\ UNCHANGED nonFrame
    \/ (\E msg \in PeerMessages \cup TruncatedMessages : PeerSend(msg))
            /\ UNCHANGED nonFrame
    \/ Arrive /\ UNCHANGED nonFrame
    \/ PeerClose /\ UNCHANGED nonFrame
    \/ PeerReset /\ UNCHANGED nonFrame
    \/ Accept /\ UNCHANGED nonFrame
    \/ Peek /\ UNCHANGED nonFrame
    \/ ConsumeHeader /\ UNCHANGED nonFrame
    \/ RecvChunk /\ UNCHANGED nonFrame
    \/ RecvRaw /\ UNCHANGED nonFrame

SpecFrame == Init /\ [][NextFrame]_vars

(* the Telemetry reading loop with one peer, which connects once to the    *)
(* empty history and sends one frame as test_client.send_realtime_data does *)
NextRtFrame ==
    \/ f_conns = 0 /\ PeerConnect /\ UNCHANGED nonFrame
    \/ (\E msg \in SensorMessages : f_sent = <<>> /\ PeerSend(msg))
            /\ UNCHANGED nonFrame
    \/ Arrive /\ UNCHANGED nonFrame
    \/ PeerClose /\ UNCHANGED nonFrame
    \/ PeerReset /\ UNCHANGED nonFrame
    \/ Accept /\ UNCHANGED nonFrame
    \/ Peek /\ UNCHANGED nonFrame
    \/ ConsumeHeader /\ UNCHANGED nonFrame
    \/ RtRecvChunk /\ UNCHANGED nonRtFrame
    \/ RtRecvRaw /\ UNCHANGED nonRtFrame

SpecRtFrame == Init /\ [][NextRtFrame]_vars

(* the reading loop of a connected endpoint that finds 4 or 5 bytes        *)
(* received; the first byte is 0, 1 or 127 and the others 0, 1 or 255,     *)
(* which gives the peeked values 0, 1, 65535, 65536 and 2^31 - 1 among     *)
(* others (a first byte above 127 gives a value no TLC integer holds)      *)
HeaderBytes == {0, 1, 127, 255}
ReceivedBytes ==
    UNION { { b \in [1..n -> HeaderBytes] :
                b[1] # 255 /\ \A i \in 2..n : b[i] # 127 } : n \in {4, 5} }

InitMode ==
    /\ TopoInit /\ TelemInit /\ CmdInit /\ LifeInit
    /\ f_pc = "peek"
    /\ f_connected = TRUE
    /\ f_client_sock = "open"
    /\ f_data_length = 0
    /\ f_data_parts = <<>>
    /\ f_peer = "accepted"
    /\ f_wire = <<>>
    /\ f_rbuf \in ReceivedBytes
    /\ f_end = "open"
    /\ f_sent = <<>>
    /\ f_handled = <<>>
    /\ f_conns = 1

NextMode ==
    \/ Peek /\ UNCHANGED nonFrame
    \/ ConsumeHeader /\ UNCHANGED nonFrame
    \/ RecvChunk /\ UNCHANGED nonFrame
    \/ RecvRaw /\ UNCHANGED nonFrame

SpecMode == InitMode /\ [][NextMode]_vars

(* the Command endpoint, its peer and a thread calling send_command *)
NextCmd ==
    \/ SendCommandCall("input") /\ UNCHANGED nonCmd
    \/ SendCommandAppend("input") /\ UNCHANGED nonCmd
    \/ CmdPeerConnect /\ UNCHANGED nonCmd
    \/ (\E msg \in PeerMessages : CmdPeerSend(msg)) /\ UNCHANGED nonCmd
    \/ CmdArrive /\ UNCHANGED nonCmd
    \/ CmdPeerClose /\ UNCHANGED nonCmd
    \/ CmdPeerReset /\ UNCHANGED nonCmd
    \/ CmdTop /\ UNCHANGED nonCmd
    \/ CmdInbound /\ UNCHANGED nonCmd
    \/ CmdInboundDone /\ UNCHANGED nonCmd
    \/ CmdLock /\ UNCHANGED nonCmd
    \/ CmdDrain /\ UNCHANGED nonCmd
    \/ CmdSleep /\ UNCHANGED nonCmd
    \/ CmdUnlock /\ UNCHANGED nonCmd
    \/ SendRawCommand /\ UNCHANGED nonCmd
    \/ RespPeek /\ UNCHANGED nonCmd
    \/ RespHeader /\ UNCHANGED nonCmd
    \/ RespBody /\ UNCHANGED nonCmd
    \/ RespRaw /\ UNCHANGED nonCmd

SpecCmd == Init /\ [][NextCmd]_vars

(* the command queue: two threads calling send_command, the Command worker *)
(* and a peer that listens and never writes                                *)
NextQueue ==
    \/ (\E t \in Callers : SendCommandCall(t)) /\ UNCHANGED nonCmd
    \/ (\E t \in Callers : SendCommandAppend(t)) /\ UNCHANGED nonCmd
    \/ CmdPeerConnect /\ UNCHANGED nonCmd
    \/ CmdPeerClose /\ UNCHANGED nonCmd
    \/ CmdPeerReset /\ UNCHANGED nonCmd
    \/ CmdTop /\ UNCHANGED nonCmd
    \/ CmdInbound /\ UNCHANGED nonCmd
    \/ CmdInboundDone /\ UNCHANGED nonCmd
    \/ CmdLock /\ UNCHANGED nonCmd
    \/ CmdDrain /\ UNCHANGED nonCmd
    \/ CmdSleep /\ UNCHANGED nonCmd
    \/ CmdUnlock /\ UNCHANGED nonCmd
    \/ SendRawCommand /\ UNCHANGED nonCmd
    \/ RespPeek /\ UNCHANGED nonCmd
    \/ RespRaw /\ UNCHANGED nonCmd

SpecQueue == Init /\ [][NextQueue]_vars

\* CommandInputThread.run, lines 879-880: send_command is called for the line
\* that was read when the connected flag is found set
InputSendCommand == c_connected /\ SendCommandCall("input")

(* the command queue fed by the input thread alone, behind its test of the *)
(* connected flag, with peers that connect, close and reset                *)
NextInputQueue ==
    \/ InputSendCommand /\ UNCHANGED nonCmd
    \/ SendCommandAppend("input") /\ UNCHANGED nonCmd
    \/ CmdPeerConnect /\ UNCHANGED nonCmd
    \/ CmdPeerClose /\ UNCHANGED nonCmd
    \/ CmdPeerReset /\ UNCHANGED nonCmd
    \/ CmdTop /\ UNCHANGED nonCmd
    \/ CmdInbound /\ UNCHANGED nonCmd
    \/ CmdInboundDone /\ UNCHANGED nonCmd
    \/ CmdLock /\ UNCHANGED nonCmd
    \/ CmdDrain /\ UNCHANGED nonCmd
    \/ CmdSleep /\ UNCHANGED nonCmd
    \/ CmdUnlock /\ UNCHANGED nonCmd
    \/ SendRawCommand /\ UNCHANGED nonCmd
    \/ RespPeek /\ UNCHANGED nonCmd
    \/ RespRaw /\ UNCHANGED nonCmd

SpecInputQueue == Init /\ [][NextInputQueue]_vars

(* one endpoint thread, its peer, and one call of stop() on it *)
stopRest == <<mgrVars, nonLife>>

WorkerStep ==
    \/ RunBegin /\ UNCHANGED stopRest
    \/ CreateSocket /\ UNCHANGED stopRest
    \/ LoopTop /\ UNCHANGED stopRest
    \/ AcceptCall /\ UNCHANGED stopRest
    \/ SetConnected /\ UNCHANGED stopRest
    \/ SetTimeout /\ UNCHANGED stopRest
    \/ ClientCheck /\ UNCHANGED stopRest
    \/ Receive /\ UNCHANGED stopRest
    \/ ReceiveError /\ UNCHANGED stopRest
    \/ Cleanup /\ UNCHANGED stopRest

StopStep ==
    \/ (st_pc = "idle" /\ t_pc # "unstarted" /\ StopRunning) /\ UNCHANGED stopRest
    \/ StopConnected /\ UNCHANGED stopRest
    \/ StopClientSock /\ UNCHANGED stopRest
    \/ StopSock /\ UNCHANGED stopRest

NextStop ==
    \/ ThreadStart /\ UNCHANGED stopRest
    \/ WorkerStep
    \/ StopStep
    \/ LifePeerConnect /\ UNCHANGED stopRest
    \/ SecondPeerConnect /\ UNCHANGED stopRest
    \/ LifePeerClose /\ UNCHANGED stopRest

SpecStop == Init /\ [][NextStop]_vars

\* a started thread keeps being scheduled, and a call of stop() runs to its end
FairSpecStop == SpecStop /\ WF_vars(WorkerStep) /\ WF_vars(StopStep)

(* the whole process: the main thread, the four threads and a peer *)
MainStep ==
    \/ StartNodeUpdate /\ UNCHANGED nonLife
    \/ StartOther("command_handler", "start_cmd", "start_rt") /\ UNCHANGED nonLife
    \/ StartOther("realtime_data", "start_rt", "start_input") /\ UNCHANGED nonLife
    \/ StartInput /\ UNCHANGED nonLife
    \/ MonitorExit /\ UNCHANGED nonLife
    \/ StopAllBegin /\ UNCHANGED nonLife
    \/ StopInput /\ UNCHANGED nonLife
    \/ StopNodeCall /\ UNCHANGED nonLife
    \/ StopNodeStep /\ UNCHANGED nonLife
    \/ StopNodeReturn /\ UNCHANGED nonLife
    \/ StopCommandHandler /\ UNCHANGED nonLife
    \/ StopRealTimeData /\ UNCHANGED nonLife
    \/ JoinThread(NodeAlive, "join_node", "join_cmd") /\ UNCHANGED nonLife
    \/ JoinThread(OtherAlive("command_handler"), "join_cmd", "join_rt") /\ UNCHANGED nonLife
    \/ JoinThread(OtherAlive("realtime_data"), "join_rt", "join_input") /\ UNCHANGED nonLife
    \/ JoinThread(InputAlive, "join_input", "stopped") /\ UNCHANGED nonLife
    \/ StopAllReturn /\ UNCHANGED nonLife

NextShutdown ==
    \/ MainStep
    \/ Signal /\ UNCHANGED nonLife
    \/ ProcessAlive /\ WorkerStep
    \/ ProcessAlive /\ LifePeerConnect /\ UNCHANGED stopRest
    \/ ProcessAlive /\ SecondPeerConnect /\ UNCHANGED stopRest
    \/ ProcessAlive /\ LifePeerClose /\ UNCHANGED stopRest
    \/ ProcessAlive /\ InputBegin /\ UNCHANGED <<endpointVars, st_pc, nonLife>>
    \/ ProcessAlive /\ InputLine /\ UNCHANGED <<endpointVars, st_pc, nonLife>>
    \/ ProcessAlive /\ (\E w \in OtherThreads : OtherExit(w))
                    /\ UNCHANGED <<endpointVars, st_pc, nonLife>>

SpecShutdown == Init /\ [][NextShutdown]_vars

\* the main thread keeps being scheduled
FairSpecShutdown == SpecShutdown /\ WF_vars(MainStep)

\* the main thread and the Topology endpoint thread keep being scheduled
FairSpecExit ==
    SpecShutdown /\ WF_vars(MainStep) /\ WF_vars(ProcessAlive /\ WorkerStep)

SpecTopoText == InitTopoText /\ [][NextTopoText]_vars

(* the three endpoint threads with their sockets, their peers and the main *)
(* thread                                                                  *)
OtherStep ==
    \E w \in OtherThreads :
        \/ OtherRunBegin(w) /\ UNCHANGED <<endpointVars, st_pc, nonLife>>
        \/ OtherCreateSocket(w) /\ UNCHANGED <<endpointVars, st_pc, nonLife>>
        \/ OtherBindError(w) /\ UNCHANGED <<endpointVars, st_pc, nonLife>>
        \/ OtherAccept(w) /\ UNCHANGED <<endpointVars, st_pc, nonLife>>
        \/ OtherDisconnect(w) /\ UNCHANGED <<endpointVars, st_pc, nonLife>>
        \/ OtherCleanup(w) /\ UNCHANGED <<endpointVars, st_pc, nonLife>>

NextEndpoints ==
    \/ MainStep
    \/ Signal /\ UNCHANGED nonLife
    \/ ProcessAlive /\ WorkerStep
    \/ ProcessAlive /\ LifePeerConnect /\ UNCHANGED stopRest
    \/ ProcessAlive /\ LifePeerClose /\ UNCHANGED stopRest
    \/ ProcessAlive /\ InputBegin /\ UNCHANGED <<endpointVars, st_pc, nonLife>>
    \/ ProcessAlive /\ InputLine /\ UNCHANGED <<endpointVars, st_pc, nonLife>>
    \/ ProcessAlive /\ OtherStep

SpecEndpoints == Init /\ [][NextEndpoints]_vars

----------------------------------------------------------------------------
(* Properties of the Topology store *)

\* the handler has applied its update and is about to return
NodeUpdateApplied == nu_pc = "return"

\* C1: processing a payload that is neither JSON nor holds any 'device:status'
\* pair (no ':' and no '|' in it) leaves DeviceRegistry and BroadcastNodeList
\* at their prior values
C1_MalformedLeavesStore ==
    (/\ NodeUpdateApplied
     /\ nu_data.kind = "text" /\ nu_data.text # <<>>
     /\ ~Contains(nu_data.text, ":")
     /\ ~Contains(nu_data.text, "|"))
    => Store = nu_prior

\* an update message that carries a device part and a node part
HasBothParts(data) ==
    \/ /\ data.kind = "json"
       /\ data.doc.isdict
       /\ data.doc.has_devices /\ data.doc.devices.t = "dict"
       /\ data.doc.has_nodes /\ data.doc.nodes.t = "list"
    \/ data.kind = "text" /\ data.src.pipe

\* C5: a get_node_info() that ran while one update with both parts was being
\* processed returned (old devices, old nodes) or (new devices, new nodes)
C5_SnapshotIsOldOrNew ==
    (NodeUpdateApplied /\ ni_during /\ HasBothParts(nu_data))
    => ni_result \in {nu_prior, Store}

\* C8: after a JSON object {"devices": D, "broadcast_nodes": N}, D a str->str
\* mapping and N a list, DeviceRegistry is D and BroadcastNodeList is
\* [str(x) for x in N]
C8_JsonReplacesStore ==
    (NodeUpdateApplied /\ nu_data.kind = "json" /\ HasBothParts(nu_data))
    => /\ connected_devices = nu_data.doc.devices.d
       /\ broadcast_node_list =
            [i \in 1..Len(nu_data.doc.nodes.l) |-> Str(nu_data.doc.nodes.l[i])]

\* a JSON update with both parts was applied to a registry holding a key
\* that D lacks, and N holds a number
C8_Witness ==
    /\ NodeUpdateApplied /\ nu_data.kind = "json" /\ HasBothParts(nu_data)
    /\ \E k \in DOMAIN nu_prior[1] : k \notin DOMAIN nu_data.doc.devices.d
    /\ \E i \in 1..Len(nu_data.doc.nodes.l) : nu_data.doc.nodes.l[i].t = "int"
    /\ broadcast_node_list = <<X, <<"7">>>>

\* what a body rendered from entries es and names ns stands for: the status
\* of the last 'id:status' entry of each id, and the non-empty names in order
ExpectedDevices(es) ==
    LET withColon == {i \in 1..Len(es) : es[i].colon}
        last(k) == CHOOSE i \in withColon :
                      /\ es[i].id = k
                      /\ \A j \in withColon : es[j].id = k => j <= i
    IN  [k \in {es[i].id : i \in withColon} |-> es[last(k)].st]

ExpectedNodes(ns) ==
    SelectSeq([i \in 1..Len(ns) |-> ns[i].name], LAMBDA n : n # <<>>)

\* C9: after a text body 'id1:s1,id2:s2|n1,n2', DeviceRegistry maps each
\* trimmed id to its trimmed status (entries without ':' skipped) and
\* BroadcastNodeList holds the trimmed non-empty names in order
C9_TextUpdate ==
    (NodeUpdateApplied /\ nu_data.kind = "text" /\ nu_data.src.pipe)
    => /\ connected_devices = ExpectedDevices(nu_data.src.es)
       /\ broadcast_node_list = ExpectedNodes(nu_data.src.ns)

\* a body with two ids, a padded entry and two names, one padded, was
\* applied to a store that held other values
C9_Witness ==
    /\ NodeUpdateApplied /\ nu_data.kind = "text" /\ nu_data.src.pipe
    /\ Cardinality(DOMAIN connected_devices) = 2
    /\ \E i \in 1..Len(nu_data.src.es) : nu_data.src.es[i].pad
    /\ broadcast_node_list = <<X, Y>>
    /\ nu_prior = <<DictSet(EmptyDict, A, OFF), <<Y>>>>

----------------------------------------------------------------------------
(* Properties of the sensor history *)

\* C10: the history never holds more than max_data_points samples, and after
\* max_data_points + 1 appends to an empty history the first appended sample
\* is gone and the stored ones are the most recent, in arrival order
C10_HistoryBound ==
    /\ Len(sensor_data_list) <= max_data_points
    /\ Len(rt_appended) = max_data_points + 1
       => /\ \A i \in 1..Len(sensor_data_list) : sensor_data_list[i] # rt_appended[1]
          /\ sensor_data_list = SubSeq(rt_appended, 2, max_data_points + 1)

\* one sample more than the capacity has been appended to an empty history
C10_Witness ==
    /\ Len(rt_appended) = max_data_points + 1
    /\ Len(sensor_data_list) = max_data_points
    /\ sensor_data_list[max_data_points][TIMESTAMP] = VTime(rt_clock)

\* the peer of this connection sent length-prefixed frames only
FramesOnly == \A i \in 1..Len(f_sent) : f_sent[i].kind = "frame"

\* the decoded payloads of the messages sent, in the order sent
SentPayloads == [i \in 1..Len(f_sent) |-> Decode(f_sent[i].bytes)]

IsPrefix(a, b) == Len(a) <= Len(b) /\ a = SubSeq(b, 1, Len(a))

\* C2: when a peer sends only length-prefixed frames, then however their
\* bytes are split and delayed, the handler is called once per frame, in
\* order, with exactly that frame's payload: what has been handled so far is
\* a prefix of the payloads sent
C2_FramesHandledAligned == FramesOnly => IsPrefix(f_handled, SentPayloads)

\* C3: once a read on the Command connection has returned zero bytes or
\* raised a non-timeout error, the endpoint is Disconnected (connected false,
\* client socket dropped) when its loop comes round again
C3_ReadFailureDisconnects ==
    (c_pc = "top" /\ c_end \in {"eof", "dead"})
        => (~c_connected /\ c_client_sock = "none")

\* the worker is in a socket send or recv, or in a sleep
InNetworkCall ==
    c_pc \in {"inbound", "send", "resp_peek", "resp_header", "resp_body",
              "resp_raw", "sleep"}

\* C4: while the Command worker executes a socket send or recv, or sleeps,
\* it does not hold command_lock
C4_NoLockAcrossNetwork == InNetworkCall => command_lock # "worker"

\* C6: after stop() has been called on the endpoint and has run to its end,
\* the worker thread eventually leaves its loop and terminates, however the
\* statements of stop() and run() interleave
C6_StopTerminates == (st_pc = "done") ~> (t_pc = "terminated")

\* stop_all is being invoked while the endpoint worker is blocked in accept
\* with no peer connected
StopAllWhileIdle ==
    m_pc = "stop_all" /\ t_pc = "accept" /\ t_peer = "absent" /\ ~t_connected

\* C7: when stop_all is invoked while the endpoint worker is blocked in
\* accept with no peer connected, stop_all completes and the process
\* terminates: the main thread never waits for a worker without end
C7_ShutdownCompletes == StopAllWhileIdle ~> (m_pc = "exited")

\* the process has ended after a stop_all that left the worker, stopped and
\* without a peer, in its accept
C7_Witness ==
    m_pc = "exited" /\ t_pc = "accept" /\ t_peer = "absent" /\ st_pc = "done"

\* the peer of this connection sent nothing but a frame cut short
TruncatedOnly ==
    f_sent # <<>> /\ \A i \in 1..Len(f_sent) : f_sent[i].kind = "truncated"

\* C11: when a peer sends a valid length header, fewer payload bytes than it
\* announces, and closes, the payload handler is not invoked on any part of
\* the truncated frame
C11_TruncatedNotHandled == TruncatedOnly => f_handled = <<>>

\* C12: however send_command calls from several threads interleave with the
\* worker's dequeue, the commands taken off the queue followed by those still
\* in it are exactly the commands appended, in the order of their appends:
\* none is dequeued twice, none is lost, and the order is first in, first out
C12_QueueIntegrity == dequeued \o command_queue = enqueued

\* two threads have appended in the opposite order of their calls and the
\* worker has taken both commands off the queue
C12_Witness ==
    /\ enqueued = <<CommandOf(2), CommandOf(1)>>
    /\ dequeued = enqueued

\* a payload _process_sensor_data parses: a JSON object, or text holding a
\* 'name:value' entry
ParsesOk(data) ==
    \/ data.kind = "json" /\ data.doc.isdict
    \/ data.kind = "text" /\ Contains(data.text, ":")

\* C18: every call of _process_sensor_data with a payload that parses appends
\* exactly one sample to the history, whatever the time since the last
\* display is
C18_AppendIgnoresThrottle ==
    [][ (rt_clock' = rt_clock + 1 /\ ParsesOk(rt_data'))
        => /\ Len(rt_appended') = Len(rt_appended) + 1
           /\ LET old == sensor_data_list
                  new == sensor_data_list'
                  kept == IF Len(old) >= max_data_points THEN Tail(old) ELSE old
              IN  /\ Len(new) = Len(kept) + 1
                  /\ SubSeq(new, 1, Len(kept)) = kept
                  /\ new[Len(new)] = rt_appended'[Len(rt_appended')] ]_vars

\* two payloads that parse were stored while no display was due
C18_Witness ==
    /\ rt_clock = 2 /\ Len(rt_appended) = 2
    /\ ParsesOk(rt_data)
    /\ last_display_time = 0
    /\ rt_now - last_display_time < display_interval

\* the peer's first connection carried the frame of SensorBody, and the
\* endpoint has read the stream as far as it was sent
SensorFrameRead ==
    /\ f_sent = <<[kind |-> "frame", bytes |-> SensorBody]>>
    /\ f_wire = <<>> /\ f_rbuf = <<>>
    /\ f_end # "rst"
    /\ f_pc = "peek"

\* C13: after the length-prefixed JSON object {"a":"1"} was sent on a fresh
\* connection to an empty history and read, get_sensor_data returns exactly
\* one sample, in which a is the float 1.0 and a timestamp is set
C13_FramedJsonIngested ==
    SensorFrameRead
    => /\ Len(GetSensorData(0)) = 1
       /\ DOMAIN GetSensorData(0)[1] = {<<"a">>, TIMESTAMP}
       /\ GetSensorData(0)[1][<<"a">>] = VFloat(1, 0)
       /\ GetSensorData(0)[1][TIMESTAMP].t = "time"

\* C15: a connected Topology or Telemetry endpoint becomes disconnected only
\* on a zero-length read or a receive error, never on a timeout; the step
\* drops the client socket, returns to accept and leaves the stores as they
\* were; a read that finds the end of the stream does disconnect
C15_DisconnectRecovery ==
    [][ /\ (f_connected /\ ~f_connected')
           => /\ f_end = "rst" \/ AtEof
              /\ f_client_sock' = "none"
              /\ f_pc' = "accept"
              /\ connected_devices' = connected_devices
              /\ broadcast_node_list' = broadcast_node_list
              /\ sensor_data_list' = sensor_data_list
        /\ (f_pc \in {"chunk", "raw"} /\ f_pc' # f_pc /\ (f_end = "rst" \/ AtEof))
           => ~f_connected' ]_vars

\* a second peer was accepted after the first was disconnected, and a
\* message of it was handled
C15_Witness ==
    /\ f_conns = 2
    /\ f_connected /\ f_peer = "accepted" /\ f_client_sock = "open"
    /\ f_handled # <<>>

\* C16: while 1 to 3 bytes are available at the start of a message the
\* reader consumes none of them, calls no handler and stays connected
C16_ShortInputNotConsumed ==
    [][ (/\ f_connected /\ f_pc \in {"peek", "raw"}
         /\ Len(f_rbuf) \in 1..3
         /\ f_end' # "rst")
        => /\ IsPrefix(f_rbuf, f_rbuf')
           /\ f_handled' = f_handled
           /\ f_connected' ]_vars

\* the 4 bytes a peek returns, as a big-endian unsigned integer
PeekedValue ==
    f_rbuf[1] * 16777216 + f_rbuf[2] * 65536 + f_rbuf[3] * 256 + f_rbuf[4]

\* C17: with 4 bytes peeked, the reader goes on to consume them as a header
\* if and only if 0 < V < 65536; the header read takes exactly those 4 bytes;
\* otherwise nothing is consumed before the raw recv, which reads all the
\* bytes received (there are fewer than 4096) and hands them, the 4 peeked
\* bytes first, to the handler
C17_ModeSelection ==
    [][ /\ (f_pc = "peek" /\ f_pc' # "peek")
           => /\ f_pc' \in {"header", "raw"}
              /\ f_pc' = "header" <=> (0 < PeekedValue /\ PeekedValue < 65536)
              /\ f_rbuf' = f_rbuf /\ f_handled' = f_handled
        /\ (f_pc = "header" /\ f_pc' # "header")
           => /\ f_pc' = "chunk"
              /\ f_rbuf' = SubSeq(f_rbuf, 5, Len(f_rbuf))
              /\ f_handled' = f_handled
        /\ (f_pc = "raw" /\ f_pc' # "raw")
           => /\ f_rbuf' = <<>>
              /\ f_handled' = Append(f_handled, Strip(Decode(f_rbuf))) ]_vars

\* the peeked value 65536 (bytes 00 01 00 00) was read raw and handed over
C17_Witness ==
    /\ f_handled = <<<<"NUL", "SOH", "NUL", "NUL">>>>
    /\ f_rbuf = <<>> /\ f_pc = "peek"

SendFails ==
    /\ c_pc = "send" /\ c_pc' # "send"
    /\ c_connected /\ c_client_sock # "none"
    /\ c_end \in {"rst", "dead"}

\* C19: when the sendall of a dequeued command raises, the endpoint becomes
\* disconnected with its client socket dropped, nothing reaches the peer, the
\* queue keeps its entries in their order and does not get the command back;
\* a command whose send failed is never in the queue and never reaches a peer
C19_SendFailureDropsCommand ==
    [][ /\ SendFails
           => /\ ~c_connected' /\ c_client_sock' = "none"
              /\ command_queue' = command_queue
              /\ c_out' = c_out
              /\ c_command' = NoCommand
        /\ \A cmd \in c_failed' :
              /\ \A i \in 1..Len(command_queue') : command_queue'[i] # cmd
              /\ \A i \in 1..Len(c_out') : Decode(c_out'[i]) # cmd ]_vars

\* the send of command 1 failed with command 2 behind it in the queue, and
\* command 2 has then reached the next peer
C19_Witness ==
    /\ c_failed = {CommandOf(1)}
    /\ dequeued = <<CommandOf(1), CommandOf(2)>>
    /\ c_out = <<<<50>>>>

RawChunkTaken ==
    /\ c_sent # <<>> /\ c_sent[1].kind = "raw"
    /\ c_wire = <<>> /\ c_rbuf = <<>>
    /\ c_end = "open"
    /\ ~(c_pc = "send" /\ c_ret = "lock")

\* how many of the sends to the peer carried exactly these bytes
TimesSent(bytes) == Cardinality({i \in DOMAIN c_out : c_out[i] = bytes})

\* C21: a non-empty text chunk that the peer sent unsolicited on the Command
\* connection has been forwarded verbatim exactly once when it has been read,
\* also when it arrived while the worker waited for the response to a command
C21_InboundForwardedOnce ==
    RawChunkTaken => TimesSent(c_sent[1].bytes) = 1

\* stop_all has called stop() on every component and has not joined yet
BeforeJoins == m_pc = "join_node"

\* a socket field that holds no open socket
Shut(sock) == sock \in {"none", "closed"}

\* C22: when stop_all has called stop() on every component and the joins are
\* about to begin, each of the three endpoints (Topology, Command,
\* Telemetry) has running false, its listener closed and its client
\* connection closed
C22_StoppedBeforeJoins ==
    BeforeJoins =>
        /\ ~t_running /\ Shut(t_sock) /\ Shut(t_client_sock)
        /\ \A w \in OtherThreads :
              ~ep[w].running /\ Shut(ep[w].sock) /\ Shut(ep[w].client_sock)

\* a payload that is neither a JSON object nor text with a 'key:value' pair
MalformedSensorData(data) ==
    \/ data.kind = "json" /\ ~data.doc.isdict
    \/ data.kind = "text" /\ ~Contains(data.text, ":")

\* C23: a call of _process_sensor_data with a payload that is neither a JSON
\* object nor text holding at least one 'key:value' pair leaves the sensor
\* history as it was
C23_MalformedDropped ==
    [][(rt_clock' = rt_clock + 1 /\ MalformedSensorData(rt_data'))
         => sensor_data_list' = sensor_data_list]_vars

\* a stored device value as the coercion rule leaves it: a float, or a
\* string that float() does not accept
CoercedValue(v) == v.t = "float" \/ (v.t = "str" /\ ~ParseFloat(v.s).ok)

\* C24: in every stored sample each device value is a float where the source
\* token was a JSON number or a numeric-looking string, and the original
\* string otherwise; a JSON integer 12 is stored as the float 12.0
C24_ValuesCoerced ==
    \A i \in DOMAIN sensor_data_list :
        \A k \in DOMAIN sensor_data_list[i] \ {TIMESTAMP} :
            CoercedValue(sensor_data_list[i][k])

\* the last min(K, len(history)) samples of the history, in arrival order
LastSamples(K) ==
    SubSeq(sensor_data_list,
           Len(sensor_data_list) - Min(K, Len(sensor_data_list)) + 1,
           Len(sensor_data_list))

\* C25: for every K >= 0 and every history, get_sensor_data(K) returns at
\* most K samples, namely the last min(K, len(history)) samples in arrival
\* order
C25_RecentSamples ==
    \A K \in 0..(max_data_points + 1) :
        /\ Len(GetSensorData(K)) <= K
        /\ GetSensorData(K) = LastSamples(K)

\* the stored samples are the most recently appended ones, each as it was
\* when it was appended
StoredAsAppended ==
    sensor_data_list =
        SubSeq(rt_appended, Len(rt_appended) - Len(sensor_data_list) + 1,
               Len(rt_appended))

\* C26: whatever a caller does to the list that get_sensor_data returned, or
\* to a sample mapping inside it, the store is unchanged: every stored sample
\* is as it was when it was appended
C26_SnapshotsAreCopies == StoredAsAppended

\* the run of the Command or Telemetry thread leaves the creation of its
\* listener without a listening socket: bind raised
OtherBindFails(w) ==
    ep[w].pc = "create" /\ ep'[w].pc # "create" /\ ep'[w].sock # "listening"

\* the same for the Topology thread
NodeBindFails ==
    t_pc = "create" /\ t_pc' # "create" /\ t_sock' # "listening"

\* the monitoring loop of main ends by itself and stop_all is called
MonitorTriggersShutdown ==
    m_pc = "monitor" /\ m_pc' = "stop_all" /\ m_caller' = "finally"

\* what a thread's own steps cannot be told from: the stores and queues
storeVars == <<topoVars, telemVars, frameVars, cmdVars, readerVars>>

\* C27: when the bind of one endpoint's listener fails, that endpoint's
\* thread ends without entering its loop and with its listener dropped, the
\* other two endpoints, their connections, the stores and the main thread
\* are left as they were, and the monitoring loop of main triggers the
\* shutdown only when no thread is alive
C27_BindFailureIsolated ==
    [][/\ \A w \in OtherThreads :
            OtherBindFails(w) =>
               /\ ep'[w].pc = "exited" /\ others'[w] = "terminated"
               /\ ep'[w].sock = "none" /\ ep'[w].client_sock = "none"
               /\ \A v \in OtherThreads \ {w} :
                     ep'[v] = ep[v] /\ others'[v] = others[v]
               /\ UNCHANGED <<endpointVars, st_pc, m_pc, m_running, m_caller,
                              in_pc, in_running, storeVars>>
       /\ NodeBindFails =>
               /\ t_pc' = "terminated" /\ t_sock' = "none"
               /\ t_client_sock' = "none" /\ ~t_connected'
               /\ UNCHANGED <<mgrVars, storeVars>>
       /\ MonitorTriggersShutdown =>
               /\ t_pc \in {"unstarted", "terminated"}
               /\ in_pc \in {"unstarted", "terminated"}
               /\ \A w \in OtherThreads : others[w] # "alive"
      ]_vars

\* the Command endpoint's bind has failed (its thread ended with running
\* still True and no listener) while the Topology and Telemetry endpoints
\* hold accepted connections and main is still monitoring
C27_Witness ==
    /\ ep["command_handler"].pc = "exited" /\ ep["command_handler"].running
    /\ ep["command_handler"].sock = "none"
    /\ ep["realtime_data"].connected /\ ep["realtime_data"].client_sock = "open"
    /\ t_connected /\ t_client_sock = "open"
    /\ m_pc = "monitor"

\* the number of occurrences of c in s
Occurrences(s, c) == Cardinality({i \in 1..Len(s) : s[i] = c})

\* C28: after a non-JSON body with more than one '|', BroadcastNodeList is
\* the trimmed non-empty ','-separated names of everything after the first
\* '|' (for 'a:on|x,y|z': 'x' and 'y|z')
C28_SplitInTwo ==
    (NodeUpdateApplied /\ nu_data.kind = "text"
       /\ Occurrences(nu_data.text, "|") > 1)
    => broadcast_node_list = ParseNodes(Split1(nu_data.text, "|")[2])

\* a JSON object update has been applied
JsonObjectApplied ==
    NodeUpdateApplied /\ nu_data.kind = "json" /\ nu_data.doc.isdict

\* C29: after a JSON object update, a 'broadcast_nodes' that is an object
\* has set BroadcastNodeList to its key list; a 'broadcast_nodes' of any
\* other non-array shape, or none, has left BroadcastNodeList as it was; no
\* 'devices', or a 'devices' that is no object, has left DeviceRegistry as it
\* was
C29_JsonFieldShapes ==
    JsonObjectApplied =>
        LET doc == nu_data.doc
        IN  /\ (doc.has_nodes /\ doc.nodes.t = "dict")
                  => broadcast_node_list = doc.nodes.keys
            /\ (doc.has_nodes /\ doc.nodes.t \notin {"list", "dict"})
                  => broadcast_node_list = nu_prior[2]
            /\ ~doc.has_nodes => broadcast_node_list = nu_prior[2]
            /\ (~doc.has_devices \/ doc.devices.t # "dict")
                  => connected_devices = nu_prior[1]

\* an update whose 'devices' is no object and whose 'broadcast_nodes' is an
\* object was applied to a store that held a device and another node list
C29_Witness ==
    /\ JsonObjectApplied
    /\ nu_data.doc.has_devices /\ nu_data.doc.devices.t # "dict"
    /\ nu_data.doc.has_nodes /\ nu_data.doc.nodes.t = "dict"
    /\ broadcast_node_list = <<Y, X>>
    /\ nu_prior[2] # <<>> /\ nu_prior[2] # <<Y, X>>
    /\ nu_prior[1] # EmptyDict /\ connected_devices = nu_prior[1]

\* the worker reads the payload of a response whose header it has consumed:
\* the peer's message was a frame, its 4 header bytes are the ones taken, and
\* what is left of it, received or on its way, is its payload
ResponsePayloadRead ==
    /\ c_pc = "resp_body" /\ c_pc' # "resp_body" /\ c_end # "rst"
    /\ c_sent # <<>> /\ c_sent[1].kind = "frame"
    /\ c_response_length = Len(c_sent[1].bytes)
    /\ c_rbuf \o c_wire = c_sent[1].bytes

\* C30: when the response to a send begins with a valid length header L,
\* the Command endpoint, having consumed the 4 header bytes, consumes exactly
\* the L payload bytes, so that no byte of the response is left in the
\* stream for a later inbound read
C30_ResponseReadWhole ==
    [][ResponsePayloadRead =>
          /\ Len(c_rbuf) - Len(c_rbuf') = c_response_length
          /\ c_rbuf' = SubSeq(c_rbuf, c_response_length + 1, Len(c_rbuf))]_vars

\* none of the four workers is alive
NoWorkerAlive ==
    /\ t_pc \in {"unstarted", "terminated"}
    /\ in_pc \in {"unstarted", "terminated"}
    /\ \A w \in OtherThreads : others[w] # "alive"

\* C31: the monitoring loop of main invokes stop_all exactly when the
\* manager's running flag is false or none of the four workers is alive:
\* while running is true and a worker is alive the loop does not trigger the
\* shutdown, and once no worker is alive the loop is left
C31_MonitoringLoop ==
    /\ [][MonitorTriggersShutdown => (~m_running \/ NoWorkerAlive)]_vars
    /\ (m_pc = "monitor" /\ (~m_running \/ NoWorkerAlive)) ~> (m_pc # "monitor")

\* the loop has just triggered the shutdown with running still true, every
\* worker having ended by itself
C31_Witness ==
    /\ m_pc = "stop_all" /\ m_caller = "finally" /\ m_running
    /\ NoWorkerAlive /\ in_pc = "terminated" /\ t_pc = "terminated"

\* the operator has entered 'exit' or 'quit': the input thread has ended
\* while main is in its monitoring loop
OperatorExited == in_pc = "terminated" /\ m_pc = "monitor"

\* C32: after the operator has entered 'exit' or 'quit' at the prompt,
\* stop_all is eventually invoked and the process terminates, also while the
\* endpoint servers are still running
C32_OperatorExit == OperatorExited ~> (m_pc = "exited")

\* the peer sent SensorBody in the given way on its first connection and
\* closed; the endpoint read the stream to its end and is back at accept
BodyDelivered(kind) ==
    /\ f_sent = <<[kind |-> kind, bytes |-> SensorBody]>>
    /\ AtEof
    /\ f_pc = "accept" /\ ~f_connected

\* the device values of the samples in the history, the timestamps left out
SampleValues ==
    [i \in 1..Len(sensor_data_list) |->
        [k \in DOMAIN sensor_data_list[i] \ {TIMESTAMP} |-> sensor_data_list[i][k]]]

\* C33: the JSON body {"a":"1"} sent on a fresh connection and followed by a
\* close leaves the same history at the Telemetry endpoint whether it went
\* out as one raw chunk or behind a 4-byte length prefix: one sample with
\* the body's device values
C33_FramingEquivalence ==
    \A kind \in {"raw", "frame"} :
        BodyDelivered(kind)
        => SampleValues = <<[k \in {<<"a">>} |-> VFloat(1, 0)]>>

\* C34: send_command appends whatever the state of the connection, and a
\* command appended while the Command endpoint holds no open peer connection
\* (also one appended after the input thread found connected set and the
\* peer has closed since) stays in command_queue until a peer is accepted;
\* the worker takes entries off the head only, for the peer it then holds
C34_QueuedAcrossDisconnect ==
    [][ /\ \A t \in Callers :
              (sc_pc[t] = "waiting" /\ sc_pc'[t] = "idle")
              => command_queue' = Append(command_queue, sc_command[t])
        /\ dequeued' # dequeued
           => /\ dequeued' = Append(dequeued, Head(command_queue))
              /\ Head(command_queue) \notin held
      ]_vars

\* C35: in every state of the Topology endpoint, a concurrent stop() call
\* included, connected set means that a client socket is held (the
\* reference is not None); every failing call of the worker ends in one of
\* its handlers, so the thread never stops anywhere but after its cleanup
\* or a failed bind
C35_ConnectedHasClient ==
    t_connected => t_client_sock # "none"

====
